---- MODULE Spec2Model ----
(***************************************************************************)
(* Verification model of the hybrid quantum-resistant signature demo.      *)
(*                                                                         *)
(* The parts of the repository are modelled one by one, each with its own  *)
(* specification over the shared variables:                                *)
(*   SpecAssess     assessSecurityRequirement                              *)
(*   SpecMalformed  assessSecurityRequirement on out-of-range contexts     *)
(*   SpecSign       dilithiumSign, the rejection-sampling loop             *)
(*   SpecCode       signMessage / verifySignature of the library           *)
(*   SpecHybrid     generateHybridSignature of the library                 *)
(*   SpecCompress   compressPolynomial / decompressPolynomial              *)
(*   SpecBatch      aggregateSignatures of the library, batchVerify        *)
(*   SpecAggregate  aggregateSignatures of the technical specification     *)
(*   SpecKey        generateDilithiumKeys, generateProgressiveKeys         *)
(*   SpecHint       makeHint / useHint                                     *)
(*   SpecCall       several calls of dilithiumSign in flight at once       *)
(*   SpecReduce     constantTimeReduce                                     *)
(*   SpecDecompress decompressPolynomial on arbitrary packed bytes         *)
(*   SpecSample     constantTimeSample                                     *)
(*   SpecWallet     the EthereumWallet component (FairSpecWallet: every    *)
(*                  request settles; SpecWalletSimulated: the version      *)
(*                  with the simulated broadcast)                          *)
(*   SpecBench      the benchmark functions and their progress reports     *)
(* Pseudocode is taken from TECHNICAL_SPECIFICATION.md, runnable code from *)
(* lib/ethereum-utils.ts, the component from unnamed/part_002.             *)
(***************************************************************************)
EXTENDS Integers, Sequences, FiniteSets, TLC

VARIABLES
    \* ---- assessSecurityRequirement ----
    context,        \* the ThreatContext being assessed
    level,          \* its SecurityLevel, "unassessed" before the call
    raised,         \* a second context, derived from `context`
    raisedLevel,    \* the SecurityLevel of `raised`
    \* ---- dilithiumSign ----
    pc,             \* position of the sign call
    message,        \* the message being signed
    privateKey,     \* the private key of the call
    attempt,        \* the attempt counter of the call
    mu,             \* message digest
    y,              \* masking vector of the current attempt
    w,              \* commitment w = A*y
    w1,             \* high bits of w
    c_tilde,        \* challenge hash
    c,              \* challenge polynomial
    z,              \* response vector
    h,              \* hint vector
    outcome,        \* how the call ended
    maskInputs,     \* attempt counter values from which a y was derived
    \* ---- signMessage / verifySignature ----
    cpc,            \* position of the library caller
    cMessage,       \* message passed to signMessage
    cAlgorithm,     \* algorithm passed to signMessage
    cSigned,        \* what signMessage returned
    cPresented,     \* the signature handed to verifySignature
    cVerified,      \* what verifySignature returned
    \* ---- generateHybridSignature ----
    hpc,            \* position of the caller of generateHybridSignature
    hSecurityLevel, \* the securityLevel argument
    hResult,        \* what generateHybridSignature returned
    \* ---- compressPolynomial / decompressPolynomial ----
    xpc,            \* position of the caller of the compression functions
    poly,           \* the polynomial handed to compressPolynomial
    bits,           \* the bits per coefficient
    compressed,     \* the bytes compressPolynomial returned
    decompressed,   \* the polynomial decompressPolynomial returned
    \* ---- aggregateSignatures of the library and batchVerify ----
    bpc,            \* position of the caller of aggregateSignatures
    bMessages,      \* the messages of the batch, in order
    bSigned,        \* what signMessage returned for each message
    bAggregated,    \* what aggregateSignatures returned
    bPresented,     \* the messages handed to batchVerify
    bVerified,      \* what batchVerify returned
    \* ---- aggregateSignatures of the technical specification ----
    gpc,            \* position of the aggregateSignatures call
    gSignatures,    \* the signatures argument
    gNext,          \* number of signatures the loop has added
    aggregatedZ,    \* the aggregated response coefficients
    aggregationProof, \* the aggregation proof
    \* ---- generateDilithiumKeys / generateProgressiveKeys ----
    kpc,            \* position of the caller of the key generators
    kVariant,       \* the variant argument of generateDilithiumKeys
    kFirst,         \* outcome of a first generateDilithiumKeys(variant)
    kSecond,        \* outcome of a second generateDilithiumKeys(variant)
    kThreatLevel,   \* the threatLevel argument of generateProgressiveKeys
    kProgressive,   \* outcome of generateProgressiveKeys(threatLevel)
    \* ---- makeHint / useHint ----
    upc,            \* position of the caller of makeHint and useHint
    hintR,          \* the vector r the hint is made for and used on
    hintZ,          \* the vector z whose addition to r the hint records
    hint,           \* what makeHint returned
    recoveredW1,    \* what useHint returned
    \* ---- concurrent calls of dilithiumSign ----
    calls,          \* per call: position, arguments, mu and what the call returned
    attempts,       \* the attempt counters, one per declaration of `attempt`
    stepper,        \* the call that took the last step (0: none yet)
    \* ---- constantTimeReduce ----
    reduceInput,    \* the argument a of constantTimeReduce
    reduceResult,   \* what the call returned, NoResult before the call
    \* ---- constantTimeSample ----
    samplePc,       \* position of the call of constantTimeSample
    sampleEta,      \* the argument eta
    sampleAttempts, \* the local counter `attempts`
    sampleCandidate, \* the candidate drawn last
    sampleResult,   \* what the call returned
    \* ---- the EthereumWallet component ----
    wallet,         \* useState: the wallet, NoWallet for null
    network,        \* useState: connected and chainId of the network
    transaction,    \* useState: the transaction form
    signedTx,       \* useState: the signed transaction, NoSignedTx for null
    isLoading,      \* useState: busy flag of connect, generate and sign
    isBroadcasting, \* useState: busy flag of broadcast
    txHash,         \* useState: the broadcasts answered with a hash so far
    loading,        \* the connect, generate or sign call in flight
    broadcasting,   \* the broadcast call in flight and what it captured
    timers,         \* the wallets captured by scheduled balance refreshes
    generated,      \* the number of wallets generated so far
    signedMessage,  \* the message signHybridMessage got for signedTx
    verifiedMessage, \* the message verifyHybridSignature got for it
    \* ---- the benchmark runs ----
    benchRun,       \* the benchmark that runs and its position
    currentStep,    \* the local counter `currentStep`
    reported        \* the values passed to onProgress, in order

assessVars == <<context, level, raised, raisedLevel>>
signVars == <<pc, message, privateKey, attempt, mu, y, w, w1, c_tilde, c, z, h,
              outcome, maskInputs>>
codeVars == <<cpc, cMessage, cAlgorithm, cSigned, cPresented, cVerified>>
hybridVars == <<hpc, hSecurityLevel, hResult>>
compressVars == <<xpc, poly, bits, compressed, decompressed>>
batchVars == <<bpc, bMessages, bSigned, bAggregated, bPresented, bVerified>>
aggregateVars == <<gpc, gSignatures, gNext, aggregatedZ, aggregationProof>>
keyVars == <<kpc, kVariant, kFirst, kSecond, kThreatLevel, kProgressive>>
hintVars == <<upc, hintR, hintZ, hint, recoveredW1>>
callVars == <<calls, attempts, stepper>>
reduceVars == <<reduceInput, reduceResult>>
sampleVars == <<samplePc, sampleEta, sampleAttempts, sampleCandidate, sampleResult>>
walletVars == <<wallet, network, transaction, signedTx, isLoading, isBroadcasting, txHash, loading, broadcasting, timers, generated, signedMessage, verifiedMessage>>
benchVars == <<benchRun, currentStep, reported>>
vars == <<assessVars, signVars, codeVars, hybridVars, compressVars, batchVars, aggregateVars, keyVars, hintVars, callVars, reduceVars, sampleVars, walletVars, benchVars>>

\* the variables of the other parts, which a step of one part leaves alone
exceptAssess == <<signVars, codeVars, hybridVars, compressVars, batchVars, aggregateVars, keyVars, hintVars, callVars, reduceVars, sampleVars, walletVars, benchVars>>
exceptSign == <<assessVars, codeVars, hybridVars, compressVars, batchVars, aggregateVars, keyVars, hintVars, callVars, reduceVars, sampleVars, walletVars, benchVars>>
exceptCode == <<assessVars, signVars, hybridVars, compressVars, batchVars, aggregateVars, keyVars, hintVars, callVars, reduceVars, sampleVars, walletVars, benchVars>>
exceptHybrid == <<assessVars, signVars, codeVars, compressVars, batchVars, aggregateVars, keyVars, hintVars, callVars, reduceVars, sampleVars, walletVars, benchVars>>
exceptCompress == <<assessVars, signVars, codeVars, hybridVars, batchVars, aggregateVars, keyVars, hintVars, callVars, reduceVars, sampleVars, walletVars, benchVars>>
exceptBatch == <<assessVars, signVars, codeVars, hybridVars, compressVars, aggregateVars, keyVars, hintVars, callVars, reduceVars, sampleVars, walletVars, benchVars>>
exceptAggregate == <<assessVars, signVars, codeVars, hybridVars, compressVars, batchVars, keyVars, hintVars, callVars, reduceVars, sampleVars, walletVars, benchVars>>
exceptKey == <<assessVars, signVars, codeVars, hybridVars, compressVars, batchVars, aggregateVars, hintVars, callVars, reduceVars, sampleVars, walletVars, benchVars>>
exceptHint == <<assessVars, signVars, codeVars, hybridVars, compressVars, batchVars, aggregateVars, keyVars, callVars, reduceVars, sampleVars, walletVars, benchVars>>
exceptCall == <<assessVars, signVars, codeVars, hybridVars, compressVars, batchVars, aggregateVars, keyVars, hintVars, reduceVars, sampleVars, walletVars, benchVars>>
exceptReduce == <<assessVars, signVars, codeVars, hybridVars, compressVars, batchVars, aggregateVars, keyVars, hintVars, callVars, sampleVars, walletVars, benchVars>>
exceptSample == <<assessVars, signVars, codeVars, hybridVars, compressVars, batchVars, aggregateVars, keyVars, hintVars, callVars, reduceVars, walletVars, benchVars>>
exceptWallet == <<assessVars, signVars, codeVars, hybridVars, compressVars, batchVars, aggregateVars, keyVars, hintVars, callVars, reduceVars, sampleVars, benchVars>>
exceptBench == <<assessVars, signVars, codeVars, hybridVars, compressVars, batchVars, aggregateVars, keyVars, hintVars, callVars, reduceVars, sampleVars, walletVars>>

None == "none"

(***************************************************************************)
(* Part 1: assessSecurityRequirement                                       *)
(***************************************************************************)

\* geopoliticalRisk is on a 0-10 scale
MaxGeopoliticalRisk == 10

\* transaction values around each threshold of the value tiers
TransactionValues == {0, 10000, 10001, 100000, 100001, 1000000, 1000001}

RiskProfiles == {"low", "medium", "high"}
NetworkConditions == {"normal", "hostile"}
QuantumThreatLevels == {"none", "suspected", "confirmed"}

ThreatContext ==
    [transactionValue : TransactionValues,
     userRiskProfile : RiskProfiles,
     networkConditions : NetworkConditions,
     quantumThreatLevel : QuantumThreatLevels,
     geopoliticalRisk : 0..MaxGeopoliticalRisk]

SecurityLevel == {"minimal", "standard", "high", "quantum-safe", "military"}

\* if / else if / else if chain on transactionValue
ValueRiskCumulative(v) ==
    (IF v > 1000000 THEN 3 ELSE 0) + (IF v > 100000 THEN 2 ELSE 0)
        + (IF v > 10000 THEN 1 ELSE 0)

ValueRisk(v) ==
    IF v > 1000000 THEN 3
    ELSE IF v > 100000 THEN 2
    ELSE IF v > 10000 THEN 1
    ELSE 0

\* switch (context.userRiskProfile)
ProfileRiskSwapped(p) ==
    CASE p = "high" -> 1
      [] p = "medium" -> 3
      [] OTHER -> 0

ProfileRisk(p) ==
    CASE p = "high" -> 3
      [] p = "medium" -> 1
      [] p = "low" -> 0
      [] OTHER -> 0

\* if (context.networkConditions === 'hostile') riskScore += 2
NetworkRisk(n) == IF n = "hostile" THEN 2 ELSE 0

\* the non-returning cases of switch (context.quantumThreatLevel)
QuantumRisk(t) ==
    CASE t = "suspected" -> 4
      [] t = "none" -> 0
      [] OTHER -> 0

\* Math.floor(context.geopoliticalRisk / 3)
GeopoliticalRisk(g) == g \div 3

\* riskScore as accumulated when the final mapping is reached
riskScore(ctx) ==
    ValueRisk(ctx.transactionValue) + ProfileRisk(ctx.userRiskProfile)
        + NetworkRisk(ctx.networkConditions)
        + QuantumRisk(ctx.quantumThreatLevel)
        + GeopoliticalRisk(ctx.geopoliticalRisk)

\* Map risk score to security level
MapRiskScore(s) ==
    IF s >= 8 THEN "military"
    ELSE IF s >= 6 THEN "quantum-safe"
    ELSE IF s >= 4 THEN "high"
    ELSE IF s >= 2 THEN "standard"
    ELSE "minimal"

assessConfirmedAsScore(ctx) ==
    MapRiskScore(riskScore(ctx)
                    + (IF ctx.quantumThreatLevel = "confirmed" THEN 4 ELSE 0))

assessSecurityRequirement(ctx) ==
    IF ctx.quantumThreatLevel = "confirmed"
    THEN "military"
    ELSE MapRiskScore(riskScore(ctx))

\* the orders in which the inputs and the levels are compared
ProfileRank(p) == CASE p = "low" -> 0 [] p = "medium" -> 1 [] p = "high" -> 2
NetworkRank(n) == CASE n = "normal" -> 0 [] n = "hostile" -> 1
QuantumRank(t) == CASE t = "none" -> 0 [] t = "suspected" -> 1 [] t = "confirmed" -> 2
LevelRank(l) ==
    CASE l = "minimal" -> 0
      [] l = "standard" -> 1
      [] l = "high" -> 2
      [] l = "quantum-safe" -> 3
      [] l = "military" -> 4

\* the contexts obtained from ctx by raising exactly one input
RaisedContexts(ctx) ==
    {[ctx EXCEPT !.transactionValue = v] :
        v \in {u \in TransactionValues : u > ctx.transactionValue}}
    \cup {[ctx EXCEPT !.userRiskProfile = p] :
        p \in {r \in RiskProfiles :
                ProfileRank(r) > ProfileRank(ctx.userRiskProfile)}}
    \cup {[ctx EXCEPT !.networkConditions = n] :
        n \in {r \in NetworkConditions :
                NetworkRank(r) > NetworkRank(ctx.networkConditions)}}
    \cup {[ctx EXCEPT !.quantumThreatLevel = t] :
        t \in {r \in QuantumThreatLevels :
                QuantumRank(r) > QuantumRank(ctx.quantumThreatLevel)}}
    \cup {[ctx EXCEPT !.geopoliticalRisk = g] :
        g \in {r \in 0..MaxGeopoliticalRisk : r > ctx.geopoliticalRisk}}

AssessIdle ==
    /\ context = None /\ level = None /\ raised = None /\ raisedLevel = None

InitAssessVars ==
    /\ context \in ThreatContext
    /\ level = "unassessed"
    /\ raised = None
    /\ raisedLevel = None

\* one call of assessSecurityRequirement on the context
Assess ==
    /\ level = "unassessed"
    /\ level' = assessSecurityRequirement(context)
    /\ UNCHANGED <<context, raised, raisedLevel>>

\* a second call, on the same context with a single input raised
AssessRaised ==
    /\ level \in SecurityLevel
    /\ raisedLevel = None
    /\ \E ctx \in RaisedContexts(context) :
        /\ raised' = ctx
        /\ raisedLevel' = assessSecurityRequirement(ctx)
    /\ UNCHANGED <<context, level>>

\* ThreatContext declares both numeric fields as `number`: the values below
\* zero a caller can pass
NegativeTransactionValues == {-1000001, -10001, -1}
NegativeGeopoliticalRisks == {-10, -4, -3, -1}

\* the contexts with a numeric field below zero
MalformedThreatContext ==
    {ctx \in [transactionValue : TransactionValues \cup NegativeTransactionValues,
              userRiskProfile : RiskProfiles,
              networkConditions : NetworkConditions,
              quantumThreatLevel : QuantumThreatLevels,
              geopoliticalRisk : (0..MaxGeopoliticalRisk)
                                    \cup NegativeGeopoliticalRisks] :
        ctx.transactionValue < 0 \/ ctx.geopoliticalRisk < 0}

\* ctx with every negative numeric field set to zero
ZeroedContext(ctx) ==
    [ctx EXCEPT !.transactionValue = IF @ < 0 THEN 0 ELSE @,
                !.geopoliticalRisk = IF @ < 0 THEN 0 ELSE @]

InitMalformedVars ==
    /\ context \in MalformedThreatContext
    /\ level = "unassessed"
    /\ raised = None
    /\ raisedLevel = None

\* a second call, on the same context with its negative fields set to zero
AssessZeroed ==
    /\ level \in SecurityLevel
    /\ raisedLevel = None
    /\ raised' = ZeroedContext(context)
    /\ raisedLevel' = assessSecurityRequirement(ZeroedContext(context))
    /\ UNCHANGED <<context, level>>

(***************************************************************************)
(* Part 2: dilithiumSign                                                  *)
(*                                                                         *)
(* The ring is scaled down: polynomials have one coefficient, so a         *)
(* polynomial is a residue modulo q and a vector is a tuple of residues.   *)
(* The loop, its counter and its two rejection tests are those of the      *)
(* source; the lattice helpers the source calls but does not define        *)
(* follow the CRYSTALS-Dilithium definitions the source names.             *)
(***************************************************************************)

\* const maxAttempts = 1000
maxAttempts == 1000

\* number of key seeds and of messages a call is tried on
MaxSeed == 1
MaxMessage == 0

Seeds == 0..MaxSeed
Messages == 0..MaxMessage
SignLevels == {2, 3}

\* scaled-down parameter sets, one per level
getParams(lvl) ==
    IF lvl = 2
    THEN [q |-> 97, k |-> 2, l |-> 1, eta |-> 1, tau |-> 1, beta |-> 1,
          gamma1 |-> 4, gamma2 |-> 8, omega |-> 1, d |-> 3]
    ELSE [q |-> 97, k |-> 2, l |-> 1, eta |-> 2, tau |-> 1, beta |-> 2,
          gamma1 |-> 6, gamma2 |-> 8, omega |-> 1, d |-> 3]

\* residue of an integer in [0, q)
Mod(a, q) == a % q

\* representative of a residue in (-q/2, q/2]
Centered(a, q) == IF Mod(a, q) > (q - 1) \div 2 THEN Mod(a, q) - q ELSE Mod(a, q)

Abs(a) == IF a < 0 THEN -a ELSE a

RECURSIVE HashFrom(_, _)
HashFrom(acc, data) ==
    IF data = <<>> THEN acc
    ELSE HashFrom((acc * 31 + Head(data) + 1) % 251, Tail(data))

\* shake256 of the byte string `data`, squeezed at `offset`
shake256(data, offset) == HashFrom(7 + offset, data)

\* expandA(rho, k, l): the k x l public matrix, here one column
expandA(rho, p) == [i \in 1..p.k |-> [j \in 1..p.l |-> Mod(rho * (2 * i + 1) + 11 * i + j, p.q)]]

\* sampleBeta(rhoPrime, eta, n, nonce): n coefficients in [-eta, eta]
sampleBeta(rhoPrime, eta, n, nonce) ==
    [i \in 1..n |-> ((rhoPrime + 3 * (nonce + i)) % (2 * eta + 1)) - eta]

\* matrixVectorMul(A, v)
RECURSIVE RowDot(_, _, _, _)
RowDot(row, v, j, q) ==
    IF j = 0 THEN 0 ELSE Mod(RowDot(row, v, j - 1, q) + row[j] * v[j], q)

matrixVectorMul(A, v, q) == [i \in 1..Len(A) |-> RowDot(A[i], v, Len(v), q)]

\* power2Round: r = r1 * 2^d + r0 with r0 in (-2^(d-1), 2^(d-1)]
Pow2(d) == 2 ^ d

Power2RoundLow(r, d, q) ==
    LET m == Mod(r, q) % Pow2(d)
    IN IF m > Pow2(d) \div 2 THEN m - Pow2(d) ELSE m

Power2RoundHigh(r, d, q) == (Mod(r, q) - Power2RoundLow(r, d, q)) \div Pow2(d)

\* Decompose(r, 2*gamma2): r = r1 * 2*gamma2 + r0, r0 in (-gamma2, gamma2];
\* highBits is r1
highBitsCoeff(r, gamma2, q) ==
    LET alpha == 2 * gamma2
        m == Mod(r, q) % alpha
        r0 == IF m > gamma2 THEN m - alpha ELSE m
    IN IF Mod(r, q) - r0 = q - 1 THEN 0 ELSE (Mod(r, q) - r0) \div alpha

highBits(v, gamma2, q) == [i \in 1..Len(v) |-> highBitsCoeff(v[i], gamma2, q)]

\* makeHint(z, r, gamma2): 1 where adding z to r changes the high bits
makeHint(zz, r, gamma2, q) ==
    [i \in 1..Len(r) |->
        IF highBitsCoeff(r[i], gamma2, q) # highBitsCoeff(r[i] + zz[i], gamma2, q)
        THEN 1 ELSE 0]

\* sampleInBall(c_tilde, tau): tau = 1 nonzero coefficient, +1 or -1
sampleInBall(ct, tau) == IF ct % 2 = 0 THEN 1 ELSE -1

\* polynomialVectorMul(c, v), vectorAdd, vectorSub, vectorNeg
polynomialVectorMul(cc, v, q) == [i \in 1..Len(v) |-> Mod(cc * v[i], q)]
vectorAdd(a, b, q) == [i \in 1..Len(a) |-> Mod(a[i] + b[i], q)]
vectorSub(a, b, q) == [i \in 1..Len(a) |-> Mod(a[i] - b[i], q)]
vectorNeg(a, q) == [i \in 1..Len(a) |-> Mod(-a[i], q)]

RECURSIVE MaxAbs(_, _, _)
MaxAbs(v, i, q) ==
    IF i = 0 THEN 0
    ELSE LET rest == MaxAbs(v, i - 1, q)
             cur == Abs(Centered(v[i], q))
         IN IF cur > rest THEN cur ELSE rest

\* vectorInfinityNorm(v): largest absolute centered coefficient
vectorInfinityNorm(v, q) == MaxAbs(v, Len(v), q)

RECURSIVE CountOnes(_, _)
CountOnes(v, i) == IF i = 0 THEN 0 ELSE CountOnes(v, i - 1) + v[i]

\* vectorWeight(h): number of ones in the hint
vectorWeight(v) == CountOnes(v, Len(v))

\* dilithiumKeyGen with xi as the seed
dilithiumKeyGen(securityLevel, xi) ==
    LET params == getParams(securityLevel)
        rho == shake256(<<xi>>, 0)
        rhoPrime == shake256(<<xi>>, 32)
        K == shake256(<<xi>>, 64)
        A == expandA(rho, params)
        s1 == sampleBeta(rhoPrime, params.eta, params.l, 0)
        s2 == sampleBeta(rhoPrime, params.eta, params.k, params.l)
        As1 == matrixVectorMul(A, s1, params.q)
        t == [i \in 1..params.k |-> Mod(As1[i] + s2[i], params.q)]
        t1 == [i \in 1..params.k |-> Power2RoundHigh(t[i], params.d, params.q)]
        t0 == [i \in 1..params.k |-> Power2RoundLow(t[i], params.d, params.q)]
        tr == shake256(<<rho>> \o t1, 0)
    IN [publicKey |-> [level |-> securityLevel, rho |-> rho, t1 |-> t1],
        privateKey |-> [level |-> securityLevel, rho |-> rho, K |-> K,
                        tr |-> tr, s1 |-> s1, s2 |-> s2, t0 |-> t0]]

\* the values sampleGamma1 can return for one coefficient: (-gamma1, gamma1]
MaskRange(gamma1) == (1 - gamma1)..gamma1

\* values of the locals before they are assigned
NoHash == -1
Pending == [kind |-> "pending"]

SignIdle ==
    /\ pc = None /\ message = 0 /\ privateKey = None /\ attempt = 0
    /\ mu = NoHash /\ y = <<>> /\ w = <<>> /\ w1 = <<>> /\ c_tilde = NoHash
    /\ c = 0 /\ z = <<>> /\ h = <<>> /\ outcome = Pending
    /\ maskInputs = {}

\* a call dilithiumSign(message, privateKey) with `let attempt = 0`
InitSignVars ==
    /\ pc = "Start"
    /\ message \in Messages
    /\ privateKey \in {dilithiumKeyGen(lvl, xi).privateKey :
                            lvl \in SignLevels, xi \in Seeds}
    /\ attempt = 0
    /\ mu = NoHash /\ y = <<>> /\ w = <<>> /\ w1 = <<>> /\ c_tilde = NoHash
    /\ c = 0 /\ z = <<>> /\ h = <<>> /\ outcome = Pending
    /\ maskInputs = {}

params == getParams(privateKey.level)

attemptLocals == <<y, w, w1, c_tilde, c, z, h>>

\* while (attempt < maxAttempts)
LoopContinuesInclusive(a) == a <= maxAttempts

LoopContinues(a) == a < maxAttempts

\* attempt++
NextAttemptSame(a) == a

NextAttempt(a) == a + 1

\* if (vectorInfinityNorm(z) >= params.gamma1 - params.beta)
NormRejectedStrict(zz, p) == vectorInfinityNorm(zz, p.q) > p.gamma1 - p.beta

NormRejected(zz, p) == vectorInfinityNorm(zz, p.q) >= p.gamma1 - p.beta

\* if (vectorWeight(h) > params.omega)
WeightRejectedNever(hh, p) == FALSE

WeightRejected(hh, p) == vectorWeight(hh) > p.omega

\* throw new Error("Signature generation failed after maximum attempts")
ThrownAsErrValue == [kind |-> "returned", value |-> "RejectionExhausted"]

Thrown == [kind |-> "thrown",
           error |-> "Signature generation failed after maximum attempts"]

\* return { c_tilde, z, h }
Returned(ct, zz, hh) ==
    [kind |-> "returned", value |-> [c_tilde |-> ct, z |-> zz, h |-> hh]]

\* attempt++; continue: the locals of the iteration go out of scope
Continue ==
    /\ attempt' = NextAttempt(attempt)
    /\ pc' = "Loop"
    /\ y' = <<>> /\ w' = <<>> /\ w1' = <<>> /\ c_tilde' = NoHash
    /\ c' = 0 /\ z' = <<>> /\ h' = <<>>

\* const mu = shake256(concat(privateKey.tr, message), 32)
Preprocess ==
    /\ pc = "Start"
    /\ mu' = shake256(<<privateKey.tr, message>>, 0)
    /\ pc' = "Loop"
    /\ UNCHANGED <<message, privateKey, attempt, attemptLocals, outcome,
                   maskInputs>>

\* 1. Sample masking polynomial y from (K, mu, attempt); shake256 is a
\*    random oracle, so y is any value of the range of sampleGamma1. K and mu
\*    are fixed during the call, so the attempt counter identifies the input.
Sample ==
    /\ pc = "Loop"
    /\ LoopContinues(attempt)
    /\ \E yv \in MaskRange(params.gamma1) : y' = [j \in 1..params.l |-> yv]
    /\ maskInputs' = maskInputs \cup {attempt}
    /\ pc' = "Commit"
    /\ UNCHANGED <<message, privateKey, attempt, mu, w, w1, c_tilde, c, z, h,
                   outcome>>

\* 2. w = Ay and 3. w1 = highBits(w)
Commit ==
    /\ pc = "Commit"
    /\ LET A == expandA(privateKey.rho, params)
           yq == [j \in 1..params.l |-> Mod(y[j], params.q)]
           wv == matrixVectorMul(A, yq, params.q)
       IN /\ w' = wv
          /\ w1' = highBits(wv, params.gamma2, params.q)
    /\ pc' = "Challenge"
    /\ UNCHANGED <<message, privateKey, attempt, mu, y, c_tilde, c, z, h,
                   outcome, maskInputs>>

\* 4. c_tilde = shake256(mu || encode(w1)), c = sampleInBall(c_tilde, tau)
Challenge ==
    /\ pc = "Challenge"
    /\ LET ct == shake256(<<mu>> \o w1, 0)
       IN /\ c_tilde' = ct
          /\ c' = sampleInBall(ct, params.tau)
    /\ pc' = "Respond"
    /\ UNCHANGED <<message, privateKey, attempt, mu, y, w, w1, z, h, outcome,
                   maskInputs>>

\* 5. z = y + c*s1
Respond ==
    /\ pc = "Respond"
    /\ LET cs1 == polynomialVectorMul(c, privateKey.s1, params.q)
           yq == [j \in 1..params.l |-> Mod(y[j], params.q)]
       IN z' = vectorAdd(yq, cs1, params.q)
    /\ pc' = "CheckNorm"
    /\ UNCHANGED <<message, privateKey, attempt, mu, y, w, w1, c_tilde, c, h,
                   outcome, maskInputs>>

\* 6. the norm test: attempt++ and continue, or go on to the hint
CheckNormReject ==
    /\ pc = "CheckNorm"
    /\ NormRejected(z, params)
    /\ Continue
    /\ UNCHANGED <<message, privateKey, mu, outcome, maskInputs>>

CheckNormPass ==
    /\ pc = "CheckNorm"
    /\ ~NormRejected(z, params)
    /\ pc' = "Hint"
    /\ UNCHANGED <<message, privateKey, attempt, mu, attemptLocals, outcome,
                   maskInputs>>

\* 7. h = makeHint(-c*t0, w - c*s2, gamma2)
ComputeHint ==
    /\ pc = "Hint"
    /\ LET cs2 == polynomialVectorMul(c, privateKey.s2, params.q)
           ct0 == polynomialVectorMul(c, privateKey.t0, params.q)
           w_minus_cs2 == vectorSub(w, cs2, params.q)
       IN h' = makeHint(vectorNeg(ct0, params.q), w_minus_cs2,
                        params.gamma2, params.q)
    /\ pc' = "CheckWeight"
    /\ UNCHANGED <<message, privateKey, attempt, mu, y, w, w1, c_tilde, c, z,
                   outcome, maskInputs>>

\* the weight test: attempt++ and continue, or return the signature
CheckWeightReject ==
    /\ pc = "CheckWeight"
    /\ WeightRejected(h, params)
    /\ Continue
    /\ UNCHANGED <<message, privateKey, mu, outcome, maskInputs>>

ReturnSignature ==
    /\ pc = "CheckWeight"
    /\ ~WeightRejected(h, params)
    /\ outcome' = Returned(c_tilde, z, h)
    /\ pc' = "Done"
    /\ UNCHANGED <<message, privateKey, attempt, mu, attemptLocals,
                   maskInputs>>

\* the loop condition fails: the throw after the loop
Exhausted ==
    /\ pc = "Loop"
    /\ ~LoopContinues(attempt)
    /\ outcome' = Thrown
    /\ pc' = "Failed"
    /\ UNCHANGED <<message, privateKey, attempt, mu, attemptLocals,
                   maskInputs>>

(***************************************************************************)
(* Part 3: signMessage and verifySignature of the runnable library         *)
(*                                                                         *)
(* A hex string is its length together with its content; the content of    *)
(* a signature string is read as the encoding challengeHash || z || hint.  *)
(***************************************************************************)

Algorithms == {"dilithium3", "rsa2048", "ecdsa"}

\* number of distinct values of a hash or key string that are told apart
MaxContent == 1

\* the z coefficients a signature string can decode to, on both sides of
\* the bound gamma1 - beta of the level of dilithium3
SignatureZ == {<<v>> : v \in MaskRange(getParams(3).gamma1)}

SignatureContents ==
    [challengeHash : 0..MaxContent, z : SignatureZ, hint : {<<0, 0>>, <<0, 1>>}]

\* generateRandomHex(length): any string of that length
generateRandomHex(length, contents) ==
    {[length |-> length, content |-> x] : x \in contents}

\* keySpecs[variant] || keySpecs.dilithium3
keySpecs(variant) ==
    CASE variant = "dilithium2" ->
            [publicKeySize |-> 1312, privateKeySize |-> 2528, securityLevel |-> "Level 1"]
      [] variant = "dilithium5" ->
            [publicKeySize |-> 2592, privateKeySize |-> 4864, securityLevel |-> "Level 5"]
      [] OTHER ->
            [publicKeySize |-> 1952, privateKeySize |-> 4000, securityLevel |-> "Level 3"]

\* the key pairs generateDilithiumKeys(variant) can return
generateDilithiumKeys(variant) ==
    LET spec == keySpecs(variant)
    IN {[publicKey |-> pub, privateKey |-> priv,
         publicKeySize |-> spec.publicKeySize,
         privateKeySize |-> spec.privateKeySize,
         securityLevel |-> spec.securityLevel,
         algorithm |-> variant] :
            pub \in generateRandomHex(spec.publicKeySize * 2, 0..MaxContent),
            priv \in generateRandomHex(spec.privateKeySize * 2, {0})}

\* the key pairs generateRSAKeys(keySize) can return
generateRSAKeys(keySize) ==
    {[publicKey |-> pub, privateKey |-> priv,
      publicKeySize |-> keySize \div 8,
      privateKeySize |-> (keySize \div 8) * 5,
      securityLevel |-> IF keySize = 2048 THEN "112-bit" ELSE "128-bit",
      algorithm |-> "rsa"] :
        pub \in generateRandomHex((keySize \div 8) * 2, 0..MaxContent),
        priv \in generateRandomHex((keySize \div 8) * 5 * 2, {0})}

\* the key pairs generateECDSAKeys() can return
generateECDSAKeys ==
    {[publicKey |-> pub, privateKey |-> priv,
      publicKeySize |-> 64,
      privateKeySize |-> 32,
      securityLevel |-> "128-bit",
      algorithm |-> "ecdsa"] :
        pub \in generateRandomHex(64 * 2, 0..MaxContent),
        priv \in generateRandomHex(32 * 2, {0})}

\* signatureSizes[algorithm] || 256
signatureSizes(algorithm) ==
    CASE algorithm = "dilithium3" -> 3293
      [] algorithm = "rsa2048" -> 256
      [] algorithm = "ecdsa" -> 64
      [] OTHER -> 256

\* the results signMessage(message, algorithm) can return
signMessage(msg, algorithm) ==
    LET signatureSize == signatureSizes(algorithm)
        keyPairs == IF algorithm = "dilithium3" THEN generateDilithiumKeys("dilithium3")
                    ELSE IF algorithm = "rsa2048" THEN generateRSAKeys(2048)
                    ELSE generateECDSAKeys
    IN {[signature |-> sig, signatureSize |-> signatureSize,
         publicKey |-> keys.publicKey, algorithm |-> algorithm] :
            sig \in generateRandomHex(signatureSize * 2, SignatureContents),
            keys \in keyPairs}

\* verifySignature(message, signature, publicKey, algorithm)
verifySignatureRejecting(msg, signature, publicKey, algorithm) == FALSE

verifySignature(msg, signature, publicKey, algorithm) == TRUE

CodeIdle ==
    /\ cpc = None /\ cMessage = None /\ cAlgorithm = None /\ cSigned = None
    /\ cPresented = None /\ cVerified = None

InitCodeVars ==
    /\ cpc = "idle"
    /\ cMessage \in Messages
    /\ cAlgorithm \in Algorithms
    /\ cSigned = None
    /\ cPresented = None
    /\ cVerified = None

\* const signed = await signMessage(message, algorithm)
SignMessage ==
    /\ cpc = "idle"
    /\ cSigned' \in signMessage(cMessage, cAlgorithm)
    /\ cpc' = "signed"
    /\ UNCHANGED <<cMessage, cAlgorithm, cPresented, cVerified>>

\* await verifySignature(message, signed.signature, signed.publicKey, algorithm)
VerifySigned ==
    /\ cpc = "signed"
    /\ cPresented' = cSigned.signature
    /\ cVerified' = verifySignature(cMessage, cSigned.signature,
                                    cSigned.publicKey, cAlgorithm)
    /\ cpc' = "verified"
    /\ UNCHANGED <<cMessage, cAlgorithm, cSigned>>

\* verifySignature on a signature string that differs from the one signMessage
\* returned, with the same message and public key
VerifyTampered ==
    /\ cpc = "signed"
    /\ \E sig \in generateRandomHex(cSigned.signature.length, SignatureContents) :
        /\ sig # cSigned.signature
        /\ cPresented' = sig
        /\ cVerified' = verifySignature(cMessage, sig, cSigned.publicKey,
                                        cAlgorithm)
    /\ cpc' = "verified"
    /\ UNCHANGED <<cMessage, cAlgorithm, cSigned>>

(***************************************************************************)
(* Part 4: generateHybridSignature of the runnable library                 *)
(***************************************************************************)

\* a + b on hex strings
HexConcat(a, b) ==
    [length |-> a.length + b.length, content |-> <<a.content, b.content>>]

\* bytes a hex string encodes: two characters per byte
ByteLength(hex) == hex.length \div 2

\* if (securityLevel === "standard")
IsStandardUnlessQuantumSafe(securityLevel) == securityLevel # "quantum-safe"

IsStandard(securityLevel) == securityLevel = "standard"

\* signatureSize: ecdsaSig.signatureSize + 64
HybridStandardSizeInHex(ecdsaSignatureSize) == ecdsaSignatureSize + 128

HybridStandardSize(ecdsaSignatureSize) == ecdsaSignatureSize + 64

\* the results generateHybridSignature(message, securityLevel) can return;
\* the elapsed `time` field of the standard branch is left out
generateHybridSignature(msg, securityLevel) ==
    IF IsStandard(securityLevel)
    THEN {[signature |-> HexConcat(ecdsaSig.signature, dilithiumProof),
           signatureSize |-> HybridStandardSize(ecdsaSig.signatureSize),
           algorithm |-> "hybrid-standard"] :
                ecdsaSig \in signMessage(msg, "ecdsa"),
                dilithiumProof \in generateRandomHex(128, 0..MaxContent)}
    ELSE signMessage(msg, "dilithium3")

HybridIdle == hpc = None /\ hSecurityLevel = None /\ hResult = None

\* the levels of SecurityLevel, of which the parameter type names
\* "standard" and "quantum-safe"
InitHybridVars ==
    /\ hpc = "idle"
    /\ hSecurityLevel \in SecurityLevel
    /\ hResult = None

\* await generateHybridSignature(message, securityLevel), standard branch
HybridStandard ==
    /\ hpc = "idle"
    /\ IsStandard(hSecurityLevel)
    /\ \E msg \in Messages : hResult' \in generateHybridSignature(msg, hSecurityLevel)
    /\ hpc' = "done"
    /\ UNCHANGED hSecurityLevel

\* await generateHybridSignature(message, securityLevel), else branch
HybridQuantumSafe ==
    /\ hpc = "idle"
    /\ ~IsStandard(hSecurityLevel)
    /\ \E msg \in Messages : hResult' \in generateHybridSignature(msg, hSecurityLevel)
    /\ hpc' = "done"
    /\ UNCHANGED hSecurityLevel

(***************************************************************************)
(* Part 5: compressPolynomial and decompressPolynomial                     *)
(*                                                                         *)
(* The modulus is the real one.  A polynomial has PolyLen coefficients     *)
(* instead of 256, enough for a coefficient to straddle two bytes.         *)
(***************************************************************************)

\* q = 8380417
DILITHIUM_Q == 8380417

\* coefficients per polynomial
PolyLen == 2

\* bits per coefficient: a coefficient below q has at most 23 bits
MaxBits == 23

\* how far from 0, q/2 and q the sampled coefficients lie
MaxOffset == 1

\* coefficients of [0, q) next to 0, next to q and around q / 2
Coefficients ==
    (0..MaxOffset)
    \cup ((DILITHIUM_Q - 1 - MaxOffset)..(DILITHIUM_Q - 1))
    \cup ((DILITHIUM_Q \div 2 - MaxOffset)..(DILITHIUM_Q \div 2 + MaxOffset))

\* quotient and remainder of a * b divided by n, for a, b >= 0 and n > 0.
\* The product is built by doubling, so that no intermediate value leaves
\* the 32-bit integers of the model checker; the numbers are those of the
\* double-precision arithmetic of the source, which is exact below 2^53.
RECURSIVE ProductDivMod(_, _, _)
ProductDivMod(a, b, n) ==
    IF b = 0 THEN [quot |-> 0, rem |-> 0]
    ELSE LET half == ProductDivMod(a, b \div 2, n)
             twice == [quot |-> 2 * half.quot + (2 * half.rem) \div n,
                       rem |-> (2 * half.rem) % n]
         IN IF b % 2 = 0 THEN twice
            ELSE [quot |-> twice.quot + (a \div n) + ((twice.rem + (a % n)) \div n),
                  rem |-> (twice.rem + (a % n)) % n]

\* Math.floor((a * b) / n)
MathFloorDiv(a, b, n) == ProductDivMod(a, b, n).quot

\* Math.round((a * b) / n): the nearest integer, a half rounded up
MathRoundDiv(a, b, n) ==
    LET d == ProductDivMod(a, b, n)
    IN d.quot + (IF 2 * d.rem >= n THEN 1 ELSE 0)

\* const quantized = Math.round((poly[i] * range) / DILITHIUM_Q) % range
quantizeFloor(coefficient, nbits) ==
    MathFloorDiv(coefficient, 2 ^ nbits, DILITHIUM_Q) % (2 ^ nbits)

quantize(coefficient, nbits) ==
    MathRoundDiv(coefficient, 2 ^ nbits, DILITHIUM_Q) % (2 ^ nbits)

\* poly[i] = Math.round((value * DILITHIUM_Q) / range)
dequantize(value, nbits) == MathRoundDiv(value, DILITHIUM_Q, 2 ^ nbits)

\* (n >> bit) & 1
BitOf(n, bit) == (n \div (2 ^ bit)) % 2

\* the bit that the packing loop reaches at bitOffset: bit (bitOffset % bits)
\* of the quantized coefficient number bitOffset / bits
PackedBit(p, nbits, bitOffset) ==
    BitOf(quantize(p[(bitOffset \div nbits) + 1], nbits), bitOffset % nbits)

\* the value of byte byteIndex after the loop: bit bitIndex is set when the
\* packed bit at 8 * byteIndex + bitIndex is
RECURSIVE PackedByte(_, _, _, _)
PackedByte(p, nbits, byteIndex, bitIndex) ==
    IF bitIndex = 8 \/ 8 * byteIndex + bitIndex >= Len(p) * nbits THEN 0
    ELSE PackedBit(p, nbits, 8 * byteIndex + bitIndex) * (2 ^ bitIndex)
            + PackedByte(p, nbits, byteIndex, bitIndex + 1)

\* compressPolynomial(poly, bits): Math.ceil(Len * bits / 8) bytes
compressPolynomial(p, nbits) ==
    [b \in 1..((Len(p) * nbits + 7) \div 8) |-> PackedByte(p, nbits, b - 1, 0)]

\* the value extracted for coefficient i: bit `bit` is set when bit
\* (bitOffset % 8) of byte (bitOffset / 8) is, bitOffset = i * bits + bit
RECURSIVE ExtractedValue(_, _, _, _)
ExtractedValue(bytes, nbits, i, bit) ==
    IF bit = nbits THEN 0
    ELSE BitOf(bytes[((i * nbits + bit) \div 8) + 1], (i * nbits + bit) % 8)
                * (2 ^ bit)
            + ExtractedValue(bytes, nbits, i, bit + 1)

\* decompressPolynomial(compressed, bits)
decompressPolynomial(bytes, nbits) ==
    [i \in 1..PolyLen |-> dequantize(ExtractedValue(bytes, nbits, i - 1, 0), nbits)]

CompressIdle ==
    /\ xpc = None /\ poly = <<>> /\ bits = 0 /\ compressed = <<>>
    /\ decompressed = <<>>

InitCompressVars ==
    /\ xpc = "idle"
    /\ poly \in [1..PolyLen -> Coefficients]
    /\ bits \in 1..MaxBits
    /\ compressed = <<>>
    /\ decompressed = <<>>

\* bits per coefficient of a packed input handed to decompress
MaxPackedBits == 24

\* the bytes packed inputs are made of
PackedBytes == {0, 1, 255}

\* a packed input that arrives from outside: any Math.ceil(Len * bits / 8)
\* bytes, not necessarily the output of compressPolynomial
InitPackedVars ==
    /\ xpc = "compressed"
    /\ poly = <<>>
    /\ bits \in 1..MaxPackedBits
    /\ compressed \in [1..((PolyLen * bits + 7) \div 8) -> PackedBytes]
    /\ decompressed = <<>>

\* const compressed = compressPolynomial(poly, bits)
Compress ==
    /\ xpc = "idle"
    /\ compressed' = compressPolynomial(poly, bits)
    /\ xpc' = "compressed"
    /\ UNCHANGED <<poly, bits, decompressed>>

\* decompressPolynomial(compressed, bits)
Decompress ==
    /\ xpc = "compressed"
    /\ decompressed' = decompressPolynomial(compressed, bits)
    /\ xpc' = "decompressed"
    /\ UNCHANGED <<poly, bits, compressed>>

(***************************************************************************)
(* Part 6: aggregateSignatures of the runnable library, and batchVerify    *)
(*                                                                         *)
(* batchVerify is declared (QuantumCryptoAPI) but has no body in the       *)
(* repository; it is modelled as the check of every message of the batch   *)
(* with the library's verifySignature.                                     *)
(***************************************************************************)

\* batch sizes and the messages batches are made of
BatchSizes == {1, 2}
BatchMessages == {0, 1, 2}

\* the batches of distinct messages
MessageBatches ==
    {ms \in UNION {[1..n -> BatchMessages] : n \in BatchSizes} :
        \A i, j \in 1..Len(ms) : i # j => ms[i] # ms[j]}

\* Math.floor(individualSize * 0.4)
aggregatedSize(individualSize) == (individualSize * 4) \div 10

\* the results aggregateSignatures(signatures, algorithm) can return; the
\* `reduction` percentage string and the elapsed `time` are left out
aggregateSignatures(signatures, algorithm) ==
    LET individualSize ==
            Len(signatures) * (IF algorithm = "dilithium3" THEN 3293 ELSE 64)
    IN {[aggregatedSignature |-> agg,
         originalTotalSize |-> individualSize,
         aggregatedSize |-> aggregatedSize(individualSize)] :
            agg \in generateRandomHex(aggregatedSize(individualSize) * 2,
                                      0..MaxContent)}

\* batchVerify(aggregated, messages, publicKey): every message of the batch
\* is checked against the aggregate; one failure fails the batch
batchVerify(aggregated, messages, publicKey) ==
    \A i \in 1..Len(messages) :
        verifySignature(messages[i], aggregated.aggregatedSignature,
                        publicKey, "dilithium3")

\* the batches that differ from ms in exactly one message
ChangedBatches(ms) ==
    UNION {{[ms EXCEPT ![i] = m] : m \in BatchMessages \ {ms[i]}} :
                i \in 1..Len(ms)}

BatchIdle ==
    /\ bpc = None /\ bMessages = None /\ bSigned = None /\ bAggregated = None
    /\ bPresented = None /\ bVerified = None

InitBatchVars ==
    /\ bpc = "idle"
    /\ bMessages \in MessageBatches
    /\ bSigned = None
    /\ bAggregated = None
    /\ bPresented = None
    /\ bVerified = None

\* one signMessage(message, "dilithium3") per message of the batch
SignBatch ==
    /\ bpc = "idle"
    /\ bSigned' \in {f \in [1..Len(bMessages) ->
                                signMessage(bMessages[1], "dilithium3")] :
                        \A i \in 1..Len(bMessages) :
                            f[i] \in signMessage(bMessages[i], "dilithium3")}
    /\ bpc' = "signed"
    /\ UNCHANGED <<bMessages, bAggregated, bPresented, bVerified>>

\* await aggregateSignatures(signatures, "dilithium3")
Aggregate ==
    /\ bpc = "signed"
    /\ bAggregated' \in aggregateSignatures(
                            [i \in 1..Len(bSigned) |-> bSigned[i].signature],
                            "dilithium3")
    /\ bpc' = "aggregated"
    /\ UNCHANGED <<bMessages, bSigned, bPresented, bVerified>>

\* batchVerify on the aggregate and the messages that were signed
BatchVerifySigned ==
    /\ bpc = "aggregated"
    /\ bPresented' = bMessages
    /\ bVerified' = batchVerify(bAggregated, bMessages, bSigned[1].publicKey)
    /\ bpc' = "verified"
    /\ UNCHANGED <<bMessages, bSigned, bAggregated>>

\* batchVerify on the aggregate and the batch with one message changed
BatchVerifyChanged ==
    /\ bpc = "aggregated"
    /\ \E ms \in ChangedBatches(bMessages) :
        /\ bPresented' = ms
        /\ bVerified' = batchVerify(bAggregated, ms, bSigned[1].publicKey)
    /\ bpc' = "verified"
    /\ UNCHANGED <<bMessages, bSigned, bAggregated>>

(***************************************************************************)
(* Part 7: aggregateSignatures of the technical specification              *)
(*                                                                         *)
(* The loop reads sig.z as one array of coefficients; it has PolyLen       *)
(* coefficients here instead of 256.                                       *)
(***************************************************************************)

\* largest number of signatures in a batch
MaxBatch == 2

\* response coefficients of [0, q): the sums of two of them wrap around q
ResponseCoefficients == {0, 1, DILITHIUM_Q - 1}

\* the signatures a batch is made of
DilithiumSignatures ==
    [c_tilde : {0, 1},
     z : [1..PolyLen -> ResponseCoefficients],
     h : {[i \in 1..PolyLen |-> 0]}]

\* modAdd(a, b): the sum reduced modulo q
modAdd(a, b) == (a + b) % DILITHIUM_Q

\* for (let i = 0; i < 256; i++) aggregatedZ[i] = modAdd(aggregatedZ[i], sig.z[i])
AddResponseOverwriting(acc, sigZ) == [i \in 1..PolyLen |-> modAdd(0, sigZ[i])]

AddResponse(acc, sigZ) == [i \in 1..PolyLen |-> modAdd(acc[i], sigZ[i])]

\* concat of the coefficient arrays of a list
RECURSIVE concat(_)
concat(list) == IF list = <<>> THEN <<>> ELSE Head(list) \o concat(Tail(list))

AggregateIdle ==
    /\ gpc = None /\ gSignatures = <<>> /\ gNext = 0 /\ aggregatedZ = <<>>
    /\ aggregationProof = NoHash

\* a call aggregateSignatures(signatures) after
\* `let aggregatedZ = new Array(256).fill(0)`
InitAggregateVars ==
    /\ gpc = "loop"
    /\ gSignatures \in UNION {[1..n -> DilithiumSignatures] : n \in 0..MaxBatch}
    /\ gNext = 0
    /\ aggregatedZ = [i \in 1..PolyLen |-> 0]
    /\ aggregationProof = NoHash

\* one round of `for (const sig of signatures)`
AddSignature ==
    /\ gpc = "loop"
    /\ gNext < Len(gSignatures)
    /\ aggregatedZ' = AddResponse(aggregatedZ, gSignatures[gNext + 1].z)
    /\ gNext' = gNext + 1
    /\ UNCHANGED <<gpc, gSignatures, aggregationProof>>

\* steps 3 and 4: the proof over the challenges, aggregatedZ and the hints;
\* compressionRatio is left out
FinishAggregate ==
    /\ gpc = "loop"
    /\ gNext = Len(gSignatures)
    /\ aggregationProof' =
            shake256([i \in 1..Len(gSignatures) |-> gSignatures[i].c_tilde]
                        \o aggregatedZ
                        \o concat([i \in 1..Len(gSignatures) |-> gSignatures[i].h]),
                     0)
    /\ gpc' = "done"
    /\ UNCHANGED <<gSignatures, gNext, aggregatedZ>>

(***************************************************************************)
(* Part 8: generateDilithiumKeys and generateProgressiveKeys of the        *)
(* runnable library                                                        *)
(***************************************************************************)

\* the keys of keySpecs, and a variant that is none of them
DilithiumVariants == {"dilithium2", "dilithium3", "dilithium5"}
VariantArguments == DilithiumVariants \cup {"dilithium7"}

\* the keys of configs, and a threat level that is none of them
ThreatLevels == {"low", "medium", "high", "quantum"}
ThreatLevelArguments == ThreatLevels \cup {"extreme"}

\* configs[threatLevel], for the keys of configs
configs(threatLevel) ==
    CASE threatLevel = "low" ->
            [algo |-> "ecdsa", keySize |-> 32, sigSize |-> 64,
             security |-> "128-bit classical"]
      [] threatLevel = "medium" ->
            [algo |-> "hybrid-light", keySize |-> 96, sigSize |-> 128,
             security |-> "128-bit + quantum-ready"]
      [] threatLevel = "high" ->
            [algo |-> "dilithium2", keySize |-> 1312, sigSize |-> 2420,
             security |-> "Level 1 quantum-safe"]
      [] threatLevel = "quantum" ->
            [algo |-> "dilithium3", keySize |-> 1952, sigSize |-> 3293,
             security |-> "Level 3 quantum-safe"]

\* a call that returned a value, and a call that threw
ReturnedValue(v) == [kind |-> "returned", value |-> v]
ThrownError(e) == [kind |-> "thrown", error |-> e]

\* the outcomes of generateProgressiveKeys(threatLevel): for a threatLevel
\* that is no key of configs, config is undefined and reading config.keySize
\* throws a TypeError; generationTime is left out
generateProgressiveKeys(threatLevel) ==
    IF threatLevel \in ThreatLevels
    THEN {ReturnedValue([publicKey |-> pub,
                         publicKeySize |-> configs(threatLevel).keySize,
                         signatureSize |-> configs(threatLevel).sigSize,
                         algorithm |-> configs(threatLevel).algo,
                         securityLevel |-> configs(threatLevel).security,
                         threatLevel |-> threatLevel]) :
            pub \in generateRandomHex(configs(threatLevel).keySize * 2,
                                      0..MaxContent)}
    ELSE {ThrownError("TypeError")}

KeyIdle ==
    /\ kpc = None /\ kVariant = None /\ kFirst = None /\ kSecond = None
    /\ kThreatLevel = None /\ kProgressive = None

InitKeyVars ==
    /\ kpc = "idle"
    /\ kVariant \in VariantArguments
    /\ kThreatLevel \in ThreatLevelArguments
    /\ kFirst = None
    /\ kSecond = None
    /\ kProgressive = None

\* await generateDilithiumKeys(variant)
GenerateFirst ==
    /\ kpc = "idle"
    /\ kFirst' \in {ReturnedValue(k) : k \in generateDilithiumKeys(kVariant)}
    /\ kpc' = "first"
    /\ UNCHANGED <<kVariant, kSecond, kThreatLevel, kProgressive>>

\* a second await generateDilithiumKeys(variant), with the same argument
GenerateSecond ==
    /\ kpc = "first"
    /\ kSecond' \in {ReturnedValue(k) : k \in generateDilithiumKeys(kVariant)}
    /\ kpc' = "second"
    /\ UNCHANGED <<kVariant, kFirst, kThreatLevel, kProgressive>>

\* await generateProgressiveKeys(threatLevel)
GenerateProgressive ==
    /\ kpc = "second"
    /\ kProgressive' \in generateProgressiveKeys(kThreatLevel)
    /\ kpc' = "done"
    /\ UNCHANGED <<kVariant, kFirst, kSecond, kThreatLevel>>

(***************************************************************************)
(* Part 9: makeHint in dilithiumSign and useHint in dilithiumVerify        *)
(*                                                                         *)
(* On the scaled-down ring of Part 2.  The source calls useHint without    *)
(* defining it; it follows the CRYSTALS-Dilithium definition.              *)
(***************************************************************************)

\* Decompose(r, 2*gamma2): lowBits is r0
lowBitsCoeff(r, gamma2, q) ==
    LET alpha == 2 * gamma2
        m == Mod(r, q) % alpha
        r0 == IF m > gamma2 THEN m - alpha ELSE m
    IN IF Mod(r, q) - r0 = q - 1 THEN r0 - 1 ELSE r0

\* useHint(h, r, gamma2): the high bits of r, moved by one towards the side
\* of the low bits where the hint is set
useHintCoeff(hbit, r, gamma2, q) ==
    LET m == (q - 1) \div (2 * gamma2)
        r1 == highBitsCoeff(r, gamma2, q)
    IN IF hbit = 1
       THEN IF lowBitsCoeff(r, gamma2, q) > 0
            THEN (r1 + 1) % m ELSE (r1 - 1) % m
       ELSE r1

useHint(hh, r, gamma2, q) ==
    [i \in 1..Len(r) |-> useHintCoeff(hh[i], r[i], gamma2, q)]

\* const w1 = useHint(signature.h, w_approx, params.gamma2)
recoverW1IgnoringHint(hh, w_approx, p) == highBits(w_approx, p.gamma2, p.q)

recoverW1(hh, w_approx, p) == useHint(hh, w_approx, p.gamma2, p.q)

\* the parameter set the hint functions are tried with
hintParams == getParams(3)

HintIdle ==
    /\ upc = None /\ hintR = <<>> /\ hintZ = <<>> /\ hint = <<>>
    /\ recoveredW1 = <<>>

\* every residue r and every z with an infinity norm of at most gamma2
InitHintVars ==
    /\ upc = "idle"
    /\ hintR \in {<<v>> : v \in 0..(hintParams.q - 1)}
    /\ hintZ \in {<<Mod(v, hintParams.q)>> :
                    v \in (-hintParams.gamma2)..hintParams.gamma2}
    /\ hint = <<>>
    /\ recoveredW1 = <<>>

\* const h = makeHint(z, r, params.gamma2)
MakeHint ==
    /\ upc = "idle"
    /\ hint' = makeHint(hintZ, hintR, hintParams.gamma2, hintParams.q)
    /\ upc' = "hinted"
    /\ UNCHANGED <<hintR, hintZ, recoveredW1>>

\* const w1 = useHint(h, r, params.gamma2)
UseHint ==
    /\ upc = "hinted"
    /\ recoveredW1' = recoverW1(hint, hintR, hintParams)
    /\ upc' = "recovered"
    /\ UNCHANGED <<hintR, hintZ, hint>>

(***************************************************************************)
(* Part 10: several calls of dilithiumSign in flight at once               *)
(*                                                                         *)
(* The calls interleave at the grain of one pass of the while loop.  The   *)
(* mask of an attempt is the function of (K, mu, attempt) the source       *)
(* computes, so the outcome of a call that runs alone is determined by its *)
(* arguments and can be compared with what an interleaved call returns.    *)
(***************************************************************************)

\* number of calls in flight
MaxCalls == 2

CallIds == 1..MaxCalls

\* sampleGamma1(rhoPrimeExtended, gamma1, l): l coefficients of
\* (1 - gamma1)..gamma1 expanded from the seed
sampleGamma1(rhoPrimeExtended, gamma1, l) ==
    [j \in 1..l |-> ((rhoPrimeExtended + j - 1) % (2 * gamma1)) + 1 - gamma1]

\* `let attempt = 0` is a local of the function body: call i reads and
\* writes the counter of its own activation
CounterShared(i) == 1

CounterOf(i) == i

\* one pass of the loop body for the given attempt: the signature it
\* returns, or Pending when it ends in `attempt++; continue`
signAttempt(sk, muv, att) ==
    LET p == getParams(sk.level)
        rhoPrimeExtended == shake256(<<sk.K, muv>>, att)
        yv == sampleGamma1(rhoPrimeExtended, p.gamma1, p.l)
        yq == [j \in 1..p.l |-> Mod(yv[j], p.q)]
        A == expandA(sk.rho, p)
        wv == matrixVectorMul(A, yq, p.q)
        w1v == highBits(wv, p.gamma2, p.q)
        ct == shake256(<<muv>> \o w1v, 0)
        cv == sampleInBall(ct, p.tau)
        cs1 == polynomialVectorMul(cv, sk.s1, p.q)
        zv == vectorAdd(yq, cs1, p.q)
        cs2 == polynomialVectorMul(cv, sk.s2, p.q)
        ct0 == polynomialVectorMul(cv, sk.t0, p.q)
        w_minus_cs2 == vectorSub(wv, cs2, p.q)
        hv == makeHint(vectorNeg(ct0, p.q), w_minus_cs2, p.gamma2, p.q)
    IN IF NormRejected(zv, p) THEN Pending
       ELSE IF WeightRejected(hv, p) THEN Pending
       ELSE Returned(ct, zv, hv)

\* dilithiumSign(message, privateKey) run from start to end on its own,
\* entered at the loop test with the given attempt
RECURSIVE signFrom(_, _, _)
signFrom(sk, muv, att) ==
    IF ~LoopContinues(att) THEN Thrown
    ELSE IF signAttempt(sk, muv, att) = Pending
         THEN signFrom(sk, muv, NextAttempt(att))
         ELSE signAttempt(sk, muv, att)

dilithiumSign(msg, sk) == signFrom(sk, shake256(<<sk.tr, msg>>, 0), 0)

CallIdle == calls = <<>> /\ attempts = <<>> /\ stepper = 0

InitCallVars ==
    /\ calls \in [CallIds ->
                    [pc : {"Start"}, message : Messages,
                     privateKey : {dilithiumKeyGen(lvl, xi).privateKey :
                                        lvl \in SignLevels, xi \in Seeds},
                     mu : {NoHash}, outcome : {Pending}]]
    /\ attempts = [k \in CallIds |-> 0]
    /\ stepper = 0

\* call i enters dilithiumSign: let attempt = 0; const mu = shake256(...)
CallStart(i) ==
    /\ calls[i].pc = "Start"
    /\ attempts' = [attempts EXCEPT ![CounterOf(i)] = 0]
    /\ calls' = [calls EXCEPT
                    ![i].mu = shake256(<<calls[i].privateKey.tr,
                                         calls[i].message>>, 0),
                    ![i].pc = "Loop"]
    /\ stepper' = i

\* call i makes one pass of the loop: the throw after the loop when the
\* test fails, else the body, which ends in attempt++ or in the return
CallIterate(i) ==
    /\ calls[i].pc = "Loop"
    /\ LET att == attempts[CounterOf(i)]
           r == signAttempt(calls[i].privateKey, calls[i].mu, att)
       IN IF ~LoopContinues(att)
          THEN /\ calls' = [calls EXCEPT ![i].outcome = Thrown,
                                         ![i].pc = "Failed"]
               /\ UNCHANGED attempts
          ELSE IF r = Pending
          THEN /\ attempts' = [attempts EXCEPT
                                  ![CounterOf(i)] = NextAttempt(att)]
               /\ UNCHANGED calls
          ELSE /\ calls' = [calls EXCEPT ![i].outcome = r, ![i].pc = "Done"]
               /\ UNCHANGED attempts
    /\ stepper' = i

(***************************************************************************)
(* Part 11: constantTimeReduce                                             *)
(***************************************************************************)

\* how far the arguments tried reach around 0, q and 2q
ReduceSpan == 20

\* the arguments of constantTimeReduce that are tried, all in [0, 2q)
ReduceInputs ==
    (0..ReduceSpan)
    \cup ((DILITHIUM_Q - ReduceSpan)..(DILITHIUM_Q + ReduceSpan))
    \cup ((2 * DILITHIUM_Q - 1 - ReduceSpan)..(2 * DILITHIUM_Q - 1))

NoResult == -1

\* bit i (0..30) of the 32-bit two's complement form of x
Bit32(x, i) == (x \div (2 ^ i)) % 2

\* the bits 0..i of a & b, as a number
RECURSIVE LowAnd(_, _, _)
LowAnd(a, b, i) ==
    IF i < 0 THEN 0
    ELSE Bit32(a, i) * Bit32(b, i) * (2 ^ i) + LowAnd(a, b, i - 1)

\* a & b on 32-bit signed integers: the sign bit weighs -2^31
BitAnd32(a, b) ==
    IF a < 0 /\ b < 0
    THEN (LowAnd(a, b, 30) - 2 ^ 30) - 2 ^ 30
    ELSE LowAnd(a, b, 30)

\* const mask = -(a >= q ? 1 : 0)
reduceMask(a, q) == -(IF a >= q THEN 1 ELSE 0)

\* return a + (mask & (q - a))
constantTimeReduce(a) ==
    LET q == DILITHIUM_Q
        mask == reduceMask(a, q)
    IN a + BitAnd32(mask, q - a)

ReduceIdle == reduceInput = 0 /\ reduceResult = NoResult

InitReduceVars == reduceInput \in ReduceInputs /\ reduceResult = NoResult

Reduce ==
    /\ reduceResult = NoResult
    /\ reduceResult' = constantTimeReduce(reduceInput)
    /\ UNCHANGED reduceInput

(***************************************************************************)
(* Part 12: constantTimeSample                                             *)
(*                                                                         *)
(* shake256Sample has no body in the repository: it is a sample of the     *)
(* hash output, any number of 0..MaxCandidate.                             *)
(***************************************************************************)

\* the largest eta and the largest candidate tried
MaxEta == 4
MaxCandidate == 15

\* const maxAttempts = 16
sampleMaxAttempts == 16

\* shake256Sample(seed, attempts)
shake256Sample == 0..MaxCandidate

\* const accept = (candidate < eta * 2) ? 1 : 0
acceptWide(candidate, eta) == IF candidate <= eta * 2 + 1 THEN 1 ELSE 0

accept(candidate, eta) == IF candidate < eta * 2 THEN 1 ELSE 0

\* const result = accept * (candidate - eta) + (1 - accept) * 0
sampleValue(candidate, eta) ==
    accept(candidate, eta) * (candidate - eta)
        + (1 - accept(candidate, eta)) * 0

SampleIdle ==
    /\ samplePc = None /\ sampleEta = 0 /\ sampleAttempts = 0
    /\ sampleCandidate = NoResult /\ sampleResult = None

InitSampleVars ==
    /\ samplePc = "loop"
    /\ sampleEta \in 1..MaxEta
    /\ sampleAttempts = 0
    /\ sampleCandidate = NoResult
    /\ sampleResult = None

\* one pass of the loop with an accepted candidate: if (valid) return result
DrawAccepted ==
    /\ samplePc = "loop"
    /\ sampleAttempts < sampleMaxAttempts
    /\ \E candidate \in shake256Sample :
        /\ accept(candidate, sampleEta) = 1
        /\ sampleCandidate' = candidate
        /\ sampleResult' = sampleValue(candidate, sampleEta)
    /\ samplePc' = "accepted"
    /\ UNCHANGED <<sampleEta, sampleAttempts>>

\* one pass of the loop with a rejected candidate: attempts++
DrawRejected ==
    /\ samplePc = "loop"
    /\ sampleAttempts < sampleMaxAttempts
    /\ \E candidate \in shake256Sample :
        /\ accept(candidate, sampleEta) # 1
        /\ sampleCandidate' = candidate
    /\ sampleAttempts' = sampleAttempts + 1
    /\ UNCHANGED <<samplePc, sampleEta, sampleResult>>

\* the loop test fails: return 0
Fallback ==
    /\ samplePc = "loop"
    /\ ~(sampleAttempts < sampleMaxAttempts)
    /\ sampleResult' = 0
    /\ samplePc' = "fallback"
    /\ UNCHANGED <<sampleEta, sampleAttempts, sampleCandidate>>

(***************************************************************************)
(* Part 13: the EthereumWallet component                                   *)
(*                                                                         *)
(* The React state of the component, the async handlers in flight with the *)
(* values their closures captured at the click, and the timers they        *)
(* scheduled.  Two versions of the component are in the repository: one    *)
(* broadcasts to the local node and refreshes the balance from a timer,    *)
(* the other simulates the broadcast and debits the balance itself.  The   *)
(* receiver and the Hardhat funding of the first are left out.             *)
(***************************************************************************)

\* wallets generated and broadcasts sent in one session
MaxWallets == 1
MaxBroadcasts == 1

\* a decimal numeral: the integer n written with `places` decimals, all 0
Decimal(n, places) == [n |-> n, places |-> places]

NoDecimal == [n |-> 0, places |-> -1]

\* Number.parseFloat(text)
parseFloat(text) == text.n

\* number.toString()
NumberToString(n) == Decimal(n, 0)

\* balanceEth.toFixed(4)
toFixed4(n) == Decimal(n, 4)

\* what eth_getBalance and eth_chainId can answer
NetworkBalances == {0, 5}
ChainIds == {1337}

\* the fields of the transaction form that are edited; gasLimit, gasPrice,
\* nonce and data keep their defaults
FormAddresses == {"", "0x70997970C51812dc3A010C7d01b50e0d17dc79C8"}
FormValues == {Decimal(5, 1), Decimal(2, 0)}
Forms == [to : FormAddresses, value : FormValues]

NoWallet == [id |-> 0, balance |-> NoDecimal]

NoTx == [to |-> "", value |-> NoDecimal, chainId |-> 0]

NoSignedTx == [to |-> "", value |-> NoDecimal, chainId |-> 0,
               signature |-> None]

NoMessage == <<>>

\* createEthereumTransaction(tx): value is re-rendered, chainId defaults
createEthereumTransaction(tx) ==
    [to |-> tx.to,
     value |-> NumberToString(parseFloat(tx.value)),
     chainId |-> IF tx.chainId # 0 THEN tx.chainId ELSE 1337]

\* JSON.stringify(txData): the fields of txData in the order of creation
StringifyTxData(txData) ==
    <<<<"to", txData.to>>, <<"value", txData.value>>,
      <<"gasLimit", "21000">>, <<"gasPrice", "20">>, <<"nonce", 0>>,
      <<"data", "0x">>, <<"chainId", txData.chainId>>>>

\* JSON.stringify({ to, value, gasLimit, gasPrice, nonce, data }) of the
\* fields of signedTx, in verifyTransaction
StringifyVerified(tx) ==
    <<<<"to", tx.to>>, <<"value", tx.value>>,
      <<"gasLimit", "21000">>, <<"gasPrice", "20">>, <<"nonce", 0>>,
      <<"data", "0x">>>>

\* finally { setIsLoading(false) } / finally { setIsBroadcasting(false) }:
\* the flag after a rejected await
AfterFailureKept(flag) == flag

AfterFailure(flag) == FALSE

NoCall == [op |-> None, stage |-> "idle", connected |-> FALSE,
           txData |-> NoTx]

NoBroadcast == [stage |-> "idle", wallet |-> NoWallet, value |-> NoDecimal,
                signedTx |-> NoSignedTx]

WalletIdle ==
    /\ wallet = NoWallet /\ network = [connected |-> FALSE, chainId |-> 0]
    /\ transaction = [to |-> "", value |-> NoDecimal]
    /\ signedTx = NoSignedTx /\ isLoading = FALSE /\ isBroadcasting = FALSE
    /\ txHash = 0 /\ loading = NoCall /\ broadcasting = NoBroadcast
    /\ timers = {} /\ generated = 0
    /\ signedMessage = NoMessage /\ verifiedMessage = NoMessage

\* the component as mounted: the useState initial values
InitWalletVars ==
    /\ wallet = NoWallet
    /\ network = [connected |-> FALSE, chainId |-> 0]
    /\ transaction = [to |-> "", value |-> Decimal(5, 1)]
    /\ signedTx = NoSignedTx
    /\ isLoading = FALSE
    /\ isBroadcasting = FALSE
    /\ txHash = 0
    /\ loading = NoCall
    /\ broadcasting = NoBroadcast
    /\ timers = {}
    /\ generated = 0
    /\ signedMessage = NoMessage
    /\ verifiedMessage = NoMessage

\* connectNetwork is clicked: setIsLoading(true), await connectToLocalNetwork()
ConnectClick ==
    /\ ~isLoading
    /\ isLoading' = TRUE
    /\ loading' = [NoCall EXCEPT !.op = "connect", !.stage = "pending"]
    /\ UNCHANGED <<wallet, network, transaction, signedTx, isBroadcasting,
                   txHash, broadcasting, timers, generated, signedMessage,
                   verifiedMessage>>

\* connectToLocalNetwork resolves: setNetwork(networkInfo); finally
ConnectResolves ==
    /\ loading.op = "connect" /\ loading.stage = "pending"
    /\ \E chainId \in ChainIds :
        network' = [connected |-> TRUE, chainId |-> chainId]
    /\ isLoading' = FALSE
    /\ loading' = [NoCall EXCEPT !.stage = "done"]
    /\ UNCHANGED <<wallet, transaction, signedTx, isBroadcasting, txHash,
                   broadcasting, timers, generated, signedMessage,
                   verifiedMessage>>

\* an awaited promise of the call in flight rejects: catch, then finally.
\* A rejected getBalance in generateWallet is caught by the inner catch.
LoadingRejects ==
    /\ loading.stage \in {"pending", "keys", "balance"}
    /\ isLoading' = AfterFailure(isLoading)
    /\ loading' = [NoCall EXCEPT !.stage = "failed"]
    /\ UNCHANGED <<wallet, network, transaction, signedTx, isBroadcasting,
                   txHash, broadcasting, timers, generated, signedMessage,
                   verifiedMessage>>

\* generateWallet is clicked (the button is rendered while wallet is null)
GenerateClick ==
    /\ ~isLoading /\ wallet = NoWallet
    /\ generated < MaxWallets
    /\ isLoading' = TRUE
    /\ loading' = [NoCall EXCEPT !.op = "generate", !.stage = "keys",
                                 !.connected = network.connected]
    /\ UNCHANGED <<wallet, network, transaction, signedTx, isBroadcasting,
                   txHash, broadcasting, timers, generated, signedMessage,
                   verifiedMessage>>

\* generateHybridKeys resolves: setWallet({ address, ..., balance }) and,
\* when the network was connected at the click, await getBalance(address)
KeysResolve(initialBalance) ==
    /\ loading.op = "generate" /\ loading.stage = "keys"
    /\ generated' = generated + 1
    /\ wallet' = [id |-> generated + 1, balance |-> initialBalance]
    /\ IF loading.connected
       THEN /\ loading' = [loading EXCEPT !.stage = "balance"]
            /\ UNCHANGED isLoading
       ELSE /\ loading' = [NoCall EXCEPT !.stage = "done"]
            /\ isLoading' = FALSE
    /\ UNCHANGED <<network, transaction, signedTx, isBroadcasting, txHash,
                   broadcasting, timers, signedMessage, verifiedMessage>>

\* getBalance resolves in generateWallet:
\* setWallet((prev) => (prev ? { ...prev, balance: actualBalance } : null))
BalanceResolves ==
    /\ loading.op = "generate" /\ loading.stage = "balance"
    /\ \E actualBalance \in NetworkBalances :
        wallet' = IF wallet # NoWallet
                  THEN [wallet EXCEPT !.balance = toFixed4(actualBalance)]
                  ELSE NoWallet
    /\ isLoading' = FALSE
    /\ loading' = [NoCall EXCEPT !.stage = "done"]
    /\ UNCHANGED <<network, transaction, signedTx, isBroadcasting, txHash,
                   broadcasting, timers, generated, signedMessage,
                   verifiedMessage>>

\* onClick={() => setWallet(null)}
ResetWallet ==
    /\ wallet # NoWallet
    /\ wallet' = NoWallet
    /\ UNCHANGED <<network, transaction, signedTx, isLoading, isBroadcasting,
                   txHash, loading, broadcasting, timers, generated,
                   signedMessage, verifiedMessage>>

\* the transaction form is edited (it is rendered while there is a wallet)
EditForm ==
    /\ wallet # NoWallet
    /\ transaction' \in Forms \ {transaction}
    /\ UNCHANGED <<wallet, network, signedTx, isLoading, isBroadcasting,
                   txHash, loading, broadcasting, timers, generated,
                   signedMessage, verifiedMessage>>

\* signTransaction is clicked: txData is built from the form and
\* JSON.stringify(txData) is handed to signHybridMessage
SignClick ==
    /\ wallet # NoWallet /\ ~isLoading /\ transaction.to # ""
    /\ isLoading' = TRUE
    /\ loading' = [NoCall EXCEPT
            !.op = "sign", !.stage = "pending",
            !.txData = createEthereumTransaction(
                           [to |-> transaction.to, value |-> transaction.value,
                            chainId |-> network.chainId])]
    /\ UNCHANGED <<wallet, network, transaction, signedTx, isBroadcasting,
                   txHash, broadcasting, timers, generated, signedMessage,
                   verifiedMessage>>

\* signHybridMessage resolves: setSignedTx({ ...txData, signature, ... })
SignResolves ==
    /\ loading.op = "sign" /\ loading.stage = "pending"
    /\ signedTx' = [to |-> loading.txData.to, value |-> loading.txData.value,
                    chainId |-> loading.txData.chainId,
                    signature |-> "signature"]
    /\ signedMessage' = StringifyTxData(loading.txData)
    /\ verifiedMessage' = NoMessage
    /\ isLoading' = FALSE
    /\ loading' = [NoCall EXCEPT !.stage = "done"]
    /\ UNCHANGED <<wallet, network, transaction, isBroadcasting, txHash,
                   broadcasting, timers, generated>>

\* verifyTransaction is clicked: the message handed to verifyHybridSignature
VerifyClick ==
    /\ signedTx # NoSignedTx /\ wallet # NoWallet
    /\ verifiedMessage' = StringifyVerified(signedTx)
    /\ UNCHANGED <<wallet, network, transaction, signedTx, isLoading,
                   isBroadcasting, txHash, loading, broadcasting, timers,
                   generated, signedMessage>>

\* broadcastTransaction is clicked: setIsBroadcasting(true) and the request;
\* the closure holds wallet, transaction and signedTx of this render
BroadcastClick ==
    /\ signedTx # NoSignedTx /\ network.connected /\ wallet # NoWallet
    /\ ~isBroadcasting
    /\ txHash < MaxBroadcasts
    /\ isBroadcasting' = TRUE
    /\ broadcasting' = [stage |-> "pending", wallet |-> wallet,
                        value |-> transaction.value, signedTx |-> signedTx]
    /\ UNCHANGED <<wallet, network, transaction, signedTx, isLoading, txHash,
                   loading, timers, generated, signedMessage, verifiedMessage>>

\* the node answers with a hash: setTxHash(hash), setTimeout(refresh, 2000)
BroadcastResolves ==
    /\ broadcasting.stage = "pending"
    /\ txHash' = txHash + 1
    /\ timers' = timers \cup {broadcasting.wallet}
    /\ isBroadcasting' = FALSE
    /\ broadcasting' = [NoBroadcast EXCEPT !.stage = "done"]
    /\ UNCHANGED <<wallet, network, transaction, signedTx, isLoading,
                   loading, generated, signedMessage, verifiedMessage>>

\* fetch rejects or the node answers with an error: catch, then finally
BroadcastRejects ==
    /\ broadcasting.stage = "pending"
    /\ isBroadcasting' = AfterFailure(isBroadcasting)
    /\ broadcasting' = [NoBroadcast EXCEPT !.stage = "failed"]
    /\ UNCHANGED <<wallet, network, transaction, signedTx, isLoading, txHash,
                   loading, timers, generated, signedMessage, verifiedMessage>>

\* the timer fires and getBalance(wallet.address) resolves:
\* setWallet({ ...wallet, balance: newSenderBalance }) with the wallet of
\* the closure
TimerRefresh ==
    \E captured \in timers, newSenderBalance \in NetworkBalances :
        /\ wallet' = [captured EXCEPT !.balance = toFixed4(newSenderBalance)]
        /\ timers' = timers \ {captured}
        /\ UNCHANGED <<network, transaction, signedTx, isLoading,
                       isBroadcasting, txHash, loading, broadcasting,
                       generated, signedMessage, verifiedMessage>>

\* the timer fires and getBalance rejects: the error is logged
TimerRefreshFails ==
    \E captured \in timers :
        /\ timers' = timers \ {captured}
        /\ UNCHANGED <<wallet, network, transaction, signedTx, isLoading,
                       isBroadcasting, txHash, loading, broadcasting,
                       generated, signedMessage, verifiedMessage>>

\* broadcastTransaction of the simulated version is clicked
BroadcastSimulatedClick ==
    /\ signedTx # NoSignedTx /\ network.connected /\ wallet # NoWallet
    /\ ~isBroadcasting
    /\ txHash < MaxBroadcasts
    /\ isBroadcasting' = TRUE
    /\ broadcasting' = [stage |-> "pending", wallet |-> wallet,
                        value |-> transaction.value, signedTx |-> signedTx]
    /\ UNCHANGED <<wallet, network, transaction, signedTx, isLoading, txHash,
                   loading, timers, generated, signedMessage, verifiedMessage>>

\* sendTransaction(signedTx) resolves with the mock hash: setTxHash(hash),
\* newBalance = parseFloat(wallet.balance) - parseFloat(transaction.value),
\* setWallet({ ...wallet, balance: newBalance.toString() })
BroadcastSimulatedResolves ==
    /\ broadcasting.stage = "pending"
    /\ txHash' = txHash + 1
    /\ LET newBalance == parseFloat(broadcasting.wallet.balance)
                            - parseFloat(broadcasting.value)
       IN wallet' = [broadcasting.wallet EXCEPT
                        !.balance = NumberToString(newBalance)]
    /\ isBroadcasting' = FALSE
    /\ broadcasting' = [NoBroadcast EXCEPT !.stage = "done"]
    /\ UNCHANGED <<network, transaction, signedTx, isLoading, loading, timers,
                   generated, signedMessage, verifiedMessage>>

(***************************************************************************)
(* Part 14: runPerformanceBenchmark, runEnhancedPerformanceBenchmark and   *)
(* benchmarkOptimizations                                                  *)
(*                                                                         *)
(* A progress value (k / n) * 100 is kept as the fraction 100k / n; the    *)
(* double arithmetic of the source rounds it monotonically and is exact    *)
(* for k = n.  Measured times and sizes are left out.                      *)
(***************************************************************************)

\* const algorithms = [...], const techniques = [...]
performanceAlgorithms == <<"dilithium3", "rsa2048", "ecdsa">>
enhancedAlgorithms ==
    <<"dilithium3", "dilithium3-optimized", "dilithium3-hybrid", "rsa2048",
      "ecdsa">>
techniques ==
    <<"compression", "hybrid", "optimized", "aggregation", "progressive">>

\* const iterations = 10
iterations == 10

Benchmarks ==
    {"runPerformanceBenchmark", "runEnhancedPerformanceBenchmark",
     "benchmarkOptimizations"}

algorithmsOf(fn) ==
    IF fn = "runPerformanceBenchmark" THEN performanceAlgorithms
    ELSE IF fn = "runEnhancedPerformanceBenchmark" THEN enhancedAlgorithms
    ELSE techniques

\* const totalSteps = algorithms.length * 4
enhancedTotalStepsOfThree == Len(enhancedAlgorithms) * 3

enhancedTotalSteps == Len(enhancedAlgorithms) * 4

\* const totalSteps = algorithms.length * 3; techniques.length
totalSteps(fn) ==
    IF fn = "runPerformanceBenchmark" THEN Len(performanceAlgorithms) * 3
    ELSE IF fn = "runEnhancedPerformanceBenchmark" THEN enhancedTotalSteps
    ELSE Len(techniques)

\* (currentStep / totalSteps) * 100, and the literal 100
Progress(step, total) == [num |-> step * 100, den |-> total]
Progress100 == [num |-> 100, den |-> 1]

NoRun == [fn |-> None, algo |-> 0, phase |-> "idle", i |-> 0]

BenchIdle == benchRun = NoRun /\ currentStep = 0 /\ reported = <<>>

\* the call is entered: let currentStep = 0, the first algorithm or technique
InitBenchVars ==
    /\ benchRun \in {[fn |-> fn, algo |-> 1,
                      phase |-> IF fn = "benchmarkOptimizations"
                                THEN "technique" ELSE "keyGeneration",
                      i |-> 0] : fn \in Benchmarks}
    /\ currentStep = 0
    /\ reported = <<>>

\* the position after the last phase of an algorithm: the next algorithm,
\* or return results
AfterAlgorithm(run) ==
    IF run.algo < Len(algorithmsOf(run.fn))
    THEN [run EXCEPT !.algo = run.algo + 1, !.phase = "keyGeneration", !.i = 0]
    ELSE [run EXCEPT !.phase = "returned", !.i = 0]

\* currentStep++; onProgress((currentStep / totalSteps) * 100)
ReportStep ==
    /\ currentStep' = currentStep + 1
    /\ reported' = Append(reported, Progress(currentStep + 1,
                                             totalSteps(benchRun.fn)))

\* one pass of a timing loop: for (let i = 0; i < iterations; i++) await ...
TimedIteration ==
    /\ benchRun.phase \in {"keyGeneration", "signing"}
    /\ benchRun.i < iterations
    /\ benchRun' = [benchRun EXCEPT !.i = benchRun.i + 1]
    /\ UNCHANGED <<currentStep, reported>>

\* the key generation loop has ended: the average, then the report
KeyGenerationDone ==
    /\ benchRun.phase = "keyGeneration" /\ ~(benchRun.i < iterations)
    /\ ReportStep
    /\ benchRun' = [benchRun EXCEPT !.phase = "signing", !.i = 0]

\* the signing loop has ended: the average, then the report
SigningDone ==
    /\ benchRun.phase = "signing" /\ ~(benchRun.i < iterations)
    /\ ReportStep
    /\ benchRun' = [benchRun EXCEPT !.phase = "sizes", !.i = 0]

\* the size measurement: the report, then the security analysis (enhanced)
\* or the next algorithm
SizesMeasured ==
    /\ benchRun.phase = "sizes"
    /\ ReportStep
    /\ benchRun' = IF benchRun.fn = "runEnhancedPerformanceBenchmark"
                   THEN [benchRun EXCEPT !.phase = "security"]
                   ELSE AfterAlgorithm(benchRun)

\* results.securityAnalysis[algo] = getSecurityTradeoffs(algo); the report
SecurityAnalysed ==
    /\ benchRun.phase = "security"
    /\ ReportStep
    /\ benchRun' = AfterAlgorithm(benchRun)

\* one of the first four techniques of benchmarkOptimizations:
\* onProgress((++currentStep / techniques.length) * 100)
TechniqueTested ==
    /\ benchRun.phase = "technique" /\ benchRun.algo < Len(techniques)
    /\ ReportStep
    /\ benchRun' = [benchRun EXCEPT !.algo = benchRun.algo + 1]

\* the last technique: onProgress(100); return results
LastTechniqueTested ==
    /\ benchRun.phase = "technique" /\ ~(benchRun.algo < Len(techniques))
    /\ reported' = Append(reported, Progress100)
    /\ benchRun' = [benchRun EXCEPT !.phase = "returned"]
    /\ UNCHANGED currentStep

(***************************************************************************)
(* Specifications                                                          *)
(***************************************************************************)

InitAssess == InitAssessVars /\ SignIdle /\ CodeIdle /\ HybridIdle /\ CompressIdle /\ BatchIdle /\ AggregateIdle /\ KeyIdle /\ HintIdle /\ CallIdle /\ ReduceIdle /\ SampleIdle /\ WalletIdle /\ BenchIdle
NextAssess ==
    \/ Assess /\ UNCHANGED exceptAssess
    \/ AssessRaised /\ UNCHANGED exceptAssess
SpecAssess == InitAssess /\ [][NextAssess]_vars

InitMalformed == InitMalformedVars /\ SignIdle /\ CodeIdle /\ HybridIdle /\ CompressIdle /\ BatchIdle /\ AggregateIdle /\ KeyIdle /\ HintIdle /\ CallIdle /\ ReduceIdle /\ SampleIdle /\ WalletIdle /\ BenchIdle
NextMalformed ==
    \/ Assess /\ UNCHANGED exceptAssess
    \/ AssessZeroed /\ UNCHANGED exceptAssess
SpecMalformed == InitMalformed /\ [][NextMalformed]_vars

InitSign == AssessIdle /\ InitSignVars /\ CodeIdle /\ HybridIdle /\ CompressIdle /\ BatchIdle /\ AggregateIdle /\ KeyIdle /\ HintIdle /\ CallIdle /\ ReduceIdle /\ SampleIdle /\ WalletIdle /\ BenchIdle
NextSign ==
    \/ Preprocess /\ UNCHANGED exceptSign
    \/ Sample /\ UNCHANGED exceptSign
    \/ Commit /\ UNCHANGED exceptSign
    \/ Challenge /\ UNCHANGED exceptSign
    \/ Respond /\ UNCHANGED exceptSign
    \/ CheckNormReject /\ UNCHANGED exceptSign
    \/ CheckNormPass /\ UNCHANGED exceptSign
    \/ ComputeHint /\ UNCHANGED exceptSign
    \/ CheckWeightReject /\ UNCHANGED exceptSign
    \/ ReturnSignature /\ UNCHANGED exceptSign
    \/ Exhausted /\ UNCHANGED exceptSign
SpecSign == InitSign /\ [][NextSign]_vars
\* the call is sequential code: it takes its next step whenever it has one
FairSpecSign == SpecSign /\ WF_vars(NextSign)

InitCode == AssessIdle /\ SignIdle /\ InitCodeVars /\ HybridIdle /\ CompressIdle /\ BatchIdle /\ AggregateIdle /\ KeyIdle /\ HintIdle /\ CallIdle /\ ReduceIdle /\ SampleIdle /\ WalletIdle /\ BenchIdle
NextCode ==
    \/ SignMessage /\ UNCHANGED exceptCode
    \/ VerifySigned /\ UNCHANGED exceptCode
    \/ VerifyTampered /\ UNCHANGED exceptCode
SpecCode == InitCode /\ [][NextCode]_vars

InitHybrid == AssessIdle /\ SignIdle /\ CodeIdle /\ InitHybridVars /\ CompressIdle /\ BatchIdle /\ AggregateIdle /\ KeyIdle /\ HintIdle /\ CallIdle /\ ReduceIdle /\ SampleIdle /\ WalletIdle /\ BenchIdle
NextHybrid ==
    \/ HybridStandard /\ UNCHANGED exceptHybrid
    \/ HybridQuantumSafe /\ UNCHANGED exceptHybrid
SpecHybrid == InitHybrid /\ [][NextHybrid]_vars

InitCompress == AssessIdle /\ SignIdle /\ CodeIdle /\ HybridIdle /\ InitCompressVars /\ BatchIdle /\ AggregateIdle /\ KeyIdle /\ HintIdle /\ CallIdle /\ ReduceIdle /\ SampleIdle /\ WalletIdle /\ BenchIdle
NextCompress ==
    \/ Compress /\ UNCHANGED exceptCompress
    \/ Decompress /\ UNCHANGED exceptCompress
SpecCompress == InitCompress /\ [][NextCompress]_vars

InitDecompress == AssessIdle /\ SignIdle /\ CodeIdle /\ HybridIdle /\ InitPackedVars /\ BatchIdle /\ AggregateIdle /\ KeyIdle /\ HintIdle /\ CallIdle /\ ReduceIdle /\ SampleIdle /\ WalletIdle /\ BenchIdle
NextDecompress ==
    \/ Decompress /\ UNCHANGED exceptCompress
SpecDecompress == InitDecompress /\ [][NextDecompress]_vars

InitBatch == AssessIdle /\ SignIdle /\ CodeIdle /\ HybridIdle /\ CompressIdle /\ InitBatchVars /\ AggregateIdle /\ KeyIdle /\ HintIdle /\ CallIdle /\ ReduceIdle /\ SampleIdle /\ WalletIdle /\ BenchIdle
NextBatch ==
    \/ SignBatch /\ UNCHANGED exceptBatch
    \/ Aggregate /\ UNCHANGED exceptBatch
    \/ BatchVerifySigned /\ UNCHANGED exceptBatch
    \/ BatchVerifyChanged /\ UNCHANGED exceptBatch
SpecBatch == InitBatch /\ [][NextBatch]_vars

InitAggregate == AssessIdle /\ SignIdle /\ CodeIdle /\ HybridIdle /\ CompressIdle /\ BatchIdle /\ InitAggregateVars /\ KeyIdle /\ HintIdle /\ CallIdle /\ ReduceIdle /\ SampleIdle /\ WalletIdle /\ BenchIdle
NextAggregate ==
    \/ AddSignature /\ UNCHANGED exceptAggregate
    \/ FinishAggregate /\ UNCHANGED exceptAggregate
SpecAggregate == InitAggregate /\ [][NextAggregate]_vars

InitKey == AssessIdle /\ SignIdle /\ CodeIdle /\ HybridIdle /\ CompressIdle /\ BatchIdle /\ AggregateIdle /\ InitKeyVars /\ HintIdle /\ CallIdle /\ ReduceIdle /\ SampleIdle /\ WalletIdle /\ BenchIdle
NextKey ==
    \/ GenerateFirst /\ UNCHANGED exceptKey
    \/ GenerateSecond /\ UNCHANGED exceptKey
    \/ GenerateProgressive /\ UNCHANGED exceptKey
SpecKey == InitKey /\ [][NextKey]_vars

InitHint == AssessIdle /\ SignIdle /\ CodeIdle /\ HybridIdle /\ CompressIdle /\ BatchIdle /\ AggregateIdle /\ KeyIdle /\ InitHintVars /\ CallIdle /\ ReduceIdle /\ SampleIdle /\ WalletIdle /\ BenchIdle
NextHint ==
    \/ MakeHint /\ UNCHANGED exceptHint
    \/ UseHint /\ UNCHANGED exceptHint
SpecHint == InitHint /\ [][NextHint]_vars

InitCall == AssessIdle /\ SignIdle /\ CodeIdle /\ HybridIdle /\ CompressIdle /\ BatchIdle /\ AggregateIdle /\ KeyIdle /\ HintIdle /\ InitCallVars /\ ReduceIdle /\ SampleIdle /\ WalletIdle /\ BenchIdle
NextCall ==
    \/ \E i \in CallIds : CallStart(i) /\ UNCHANGED exceptCall
    \/ \E i \in CallIds : CallIterate(i) /\ UNCHANGED exceptCall
SpecCall == InitCall /\ [][NextCall]_vars

InitReduce == AssessIdle /\ SignIdle /\ CodeIdle /\ HybridIdle /\ CompressIdle /\ BatchIdle /\ AggregateIdle /\ KeyIdle /\ HintIdle /\ CallIdle /\ InitReduceVars /\ SampleIdle /\ WalletIdle /\ BenchIdle
NextReduce ==
    \/ Reduce /\ UNCHANGED exceptReduce
SpecReduce == InitReduce /\ [][NextReduce]_vars

InitSample == AssessIdle /\ SignIdle /\ CodeIdle /\ HybridIdle /\ CompressIdle /\ BatchIdle /\ AggregateIdle /\ KeyIdle /\ HintIdle /\ CallIdle /\ ReduceIdle /\ InitSampleVars /\ WalletIdle /\ BenchIdle
NextSample ==
    \/ DrawAccepted /\ UNCHANGED exceptSample
    \/ DrawRejected /\ UNCHANGED exceptSample
    \/ Fallback /\ UNCHANGED exceptSample
SpecSample == InitSample /\ [][NextSample]_vars

InitWallet == AssessIdle /\ SignIdle /\ CodeIdle /\ HybridIdle /\ CompressIdle /\ BatchIdle /\ AggregateIdle /\ KeyIdle /\ HintIdle /\ CallIdle /\ ReduceIdle /\ SampleIdle /\ InitWalletVars /\ BenchIdle
\* an awaited promise of the call in flight settles
LoadingSettles ==
    (ConnectResolves \/ LoadingRejects \/ KeysResolve(Decimal(0, 1))
        \/ BalanceResolves \/ SignResolves) /\ UNCHANGED exceptWallet
BroadcastSettles ==
    (BroadcastResolves \/ BroadcastRejects) /\ UNCHANGED exceptWallet
NextWallet ==
    \/ ConnectClick /\ UNCHANGED exceptWallet
    \/ ConnectResolves /\ UNCHANGED exceptWallet
    \/ LoadingRejects /\ UNCHANGED exceptWallet
    \/ GenerateClick /\ UNCHANGED exceptWallet
    \/ KeysResolve(Decimal(0, 1)) /\ UNCHANGED exceptWallet
    \/ BalanceResolves /\ UNCHANGED exceptWallet
    \/ ResetWallet /\ UNCHANGED exceptWallet
    \/ EditForm /\ UNCHANGED exceptWallet
    \/ SignClick /\ UNCHANGED exceptWallet
    \/ SignResolves /\ UNCHANGED exceptWallet
    \/ VerifyClick /\ UNCHANGED exceptWallet
    \/ BroadcastClick /\ UNCHANGED exceptWallet
    \/ BroadcastResolves /\ UNCHANGED exceptWallet
    \/ BroadcastRejects /\ UNCHANGED exceptWallet
    \/ TimerRefresh /\ UNCHANGED exceptWallet
    \/ TimerRefreshFails /\ UNCHANGED exceptWallet
SpecWallet == InitWallet /\ [][NextWallet]_vars
\* every request is eventually answered or fails
FairSpecWallet ==
    SpecWallet /\ WF_vars(LoadingSettles) /\ WF_vars(BroadcastSettles)

NextWalletSimulated ==
    \/ ConnectClick /\ UNCHANGED exceptWallet
    \/ ConnectResolves /\ UNCHANGED exceptWallet
    \/ LoadingRejects /\ UNCHANGED exceptWallet
    \/ GenerateClick /\ UNCHANGED exceptWallet
    \/ KeysResolve(Decimal(10000, 1)) /\ UNCHANGED exceptWallet
    \/ BalanceResolves /\ UNCHANGED exceptWallet
    \/ ResetWallet /\ UNCHANGED exceptWallet
    \/ EditForm /\ UNCHANGED exceptWallet
    \/ SignClick /\ UNCHANGED exceptWallet
    \/ SignResolves /\ UNCHANGED exceptWallet
    \/ VerifyClick /\ UNCHANGED exceptWallet
    \/ BroadcastSimulatedClick /\ UNCHANGED exceptWallet
    \/ BroadcastSimulatedResolves /\ UNCHANGED exceptWallet
SpecWalletSimulated == InitWallet /\ [][NextWalletSimulated]_vars

InitBench == AssessIdle /\ SignIdle /\ CodeIdle /\ HybridIdle /\ CompressIdle /\ BatchIdle /\ AggregateIdle /\ KeyIdle /\ HintIdle /\ CallIdle /\ ReduceIdle /\ SampleIdle /\ WalletIdle /\ InitBenchVars
NextBench ==
    \/ TimedIteration /\ UNCHANGED exceptBench
    \/ KeyGenerationDone /\ UNCHANGED exceptBench
    \/ SigningDone /\ UNCHANGED exceptBench
    \/ SizesMeasured /\ UNCHANGED exceptBench
    \/ SecurityAnalysed /\ UNCHANGED exceptBench
    \/ TechniqueTested /\ UNCHANGED exceptBench
    \/ LastTechniqueTested /\ UNCHANGED exceptBench
SpecBench == InitBench /\ [][NextBench]_vars

(***************************************************************************)
(* Properties                                                              *)
(***************************************************************************)

TamperedSignatureRejected ==
    (/\ cpc = "verified"
     /\ cAlgorithm = "dilithium3"
     /\ cPresented.length = cSigned.signature.length
     /\ cPresented.content # cSigned.signature.content)
        => cVerified = FALSE

\* C3: the attempt counter of a sign call never exceeds maxAttempts, and the
\* call ends, with a signature or with a failure, even when every candidate
\* is rejected.
SignTerminatesWithinBudget ==
    /\ [](attempt <= maxAttempts)
    /\ <>(pc \in {"Done", "Failed"})

SignBudgetWitness ==
    /\ pc = "Failed"
    /\ attempt = maxAttempts
    /\ Cardinality(maskInputs) = maxAttempts

ReturnedSignatureWithinBounds ==
    pc = "Done" =>
        /\ outcome.kind = "returned"
        /\ \A j \in 1..Len(outcome.value.z) :
            Abs(Centered(outcome.value.z[j], params.q))
                < params.gamma1 - params.beta
        /\ Cardinality({i \in 1..Len(outcome.value.h) : outcome.value.h[i] = 1})
                <= params.omega

\* a returned signature whose norm is the largest one allowed, after a retry
ReturnedSignatureWitness ==
    /\ pc = "Done"
    /\ attempt > 0
    /\ vectorInfinityNorm(outcome.value.z, params.q)
            = params.gamma1 - params.beta - 1

\* C6: within a sign call, the triple (K, mu, attempt) from which the next
\* masking vector y is derived was not used by any earlier attempt.
MaskInputNeverReused ==
    pc = "Loop" => attempt \notin maskInputs

\* the third attempt of a call has sampled its y
MaskInputWitness ==
    /\ pc = "Commit"
    /\ attempt = 2
    /\ Cardinality(maskInputs) = 3

\* C7: verify returns false for every signature whose z has an infinity norm
\* of at least gamma1 - beta, whatever the message, hint and challengeHash.
OversizedZRejected ==
    (/\ cpc = "verified"
     /\ cAlgorithm = "dilithium3"
     /\ vectorInfinityNorm(cPresented.content.z, getParams(3).q)
            >= getParams(3).gamma1 - getParams(3).beta)
        => cVerified = FALSE

\* C8: a context whose quantumThreatLevel is confirmed is assessed as
\* military, whatever its other fields are.
ConfirmedIsMilitary ==
    /\ (level \in SecurityLevel /\ context.quantumThreatLevel = "confirmed")
            => level = "military"
    /\ (raisedLevel \in SecurityLevel /\ raised.quantumThreatLevel = "confirmed")
            => raisedLevel = "military"

\* value 0, profile low, network normal, geo 0, quantum confirmed
ConfirmedIsMilitaryWitness ==
    /\ level = "military"
    /\ context = [transactionValue |-> 0, userRiskProfile |-> "low",
                  networkConditions |-> "normal",
                  quantumThreatLevel |-> "confirmed", geopoliticalRisk |-> 0]

\* C9: raising a single input of a context, the others held fixed, never
\* lowers the level in the order minimal < standard < high < quantum-safe <
\* military.
AssessMonotone ==
    raisedLevel \in SecurityLevel => LevelRank(raisedLevel) >= LevelRank(level)

\* raising the profile from medium to high lifts the level
AssessMonotoneWitness ==
    /\ raisedLevel \in SecurityLevel
    /\ context.userRiskProfile = "medium"
    /\ raised.userRiskProfile = "high"
    /\ LevelRank(raisedLevel) > LevelRank(level)

\* C10: for a context whose quantumThreatLevel is not confirmed the level is
\* that of the score: the number of value thresholds exceeded (only the
\* highest tier counts), 0/1/3 by profile, 2 if hostile, 4 if suspected,
\* floor(geopoliticalRisk / 3); 8 and up military, 6 and up quantum-safe,
\* 4 and up high, 2 and up standard, otherwise minimal.
StatedScore(ctx) ==
    Cardinality({t \in {10000, 100000, 1000000} : ctx.transactionValue > t})
    + (IF ctx.userRiskProfile = "low" THEN 0
       ELSE IF ctx.userRiskProfile = "medium" THEN 1 ELSE 3)
    + (IF ctx.networkConditions = "hostile" THEN 2 ELSE 0)
    + (IF ctx.quantumThreatLevel = "suspected" THEN 4 ELSE 0)
    + (CHOOSE f \in 0..MaxGeopoliticalRisk :
            3 * f <= ctx.geopoliticalRisk /\ ctx.geopoliticalRisk < 3 * (f + 1))

StatedLevel(score) ==
    CASE score >= 8 -> "military"
      [] score \in 6..7 -> "quantum-safe"
      [] score \in 4..5 -> "high"
      [] score \in 2..3 -> "standard"
      [] OTHER -> "minimal"

LevelIsLevelOfScore ==
    /\ (level \in SecurityLevel /\ context.quantumThreatLevel # "confirmed")
            => level = StatedLevel(StatedScore(context))
    /\ (raisedLevel \in SecurityLevel /\ raised.quantumThreatLevel # "confirmed")
            => raisedLevel = StatedLevel(StatedScore(raised))

\* top value tier (3) + medium (1) + hostile (2) + geo 3 (1) = 7: quantum-safe
LevelIsLevelOfScoreWitness ==
    /\ level = "quantum-safe"
    /\ context = [transactionValue |-> 1000001, userRiskProfile |-> "medium",
                  networkConditions |-> "hostile",
                  quantumThreatLevel |-> "none", geopoliticalRisk |-> 3]

\* C11: a context with a negative transactionValue or a negative
\* geopoliticalRisk is given a level, and that level is the level of the same
\* context with the negative field set to zero.
NegativeInputsClamped ==
    /\ level # "unassessed" => level \in SecurityLevel
    /\ raisedLevel \in SecurityLevel => level = raisedLevel

\* what a result of generateHybridSignature is made of
HasClassicalComponent(result) == result.algorithm = "hybrid-standard"
HasLatticeSignature(result) == result.algorithm = "dilithium3"

HybridSizeByVariant ==
    hpc = "done" =>
        /\ HasClassicalComponent(hResult) # HasLatticeSignature(hResult)
        /\ HasClassicalComponent(hResult) => hResult.signatureSize = 128
        /\ HasLatticeSignature(hResult) => hResult.signatureSize = 3293
        /\ hResult.signatureSize = ByteLength(hResult.signature)

\* a Standard signature reporting 128 bytes
HybridSizeWitness ==
    /\ hpc = "done"
    /\ HasClassicalComponent(hResult)
    /\ hResult.signatureSize = 128
    /\ ByteLength(hResult.signature) = 128

\* distances between a recovered coefficient and the original one: as
\* integers, and around the ring of residues modulo q
Distance(a, b) == Abs(a - b)
RingDistance(a, b) ==
    IF Distance(a, b) <= DILITHIUM_Q - Distance(a, b)
    THEN Distance(a, b) ELSE DILITHIUM_Q - Distance(a, b)

\* C14 as stated: every coefficient recovered by decompress(compress(x))
\* differs from x by at most q / 2^(bits+1).
RoundTripErrorBound ==
    xpc = "decompressed" =>
        \A i \in 1..PolyLen :
            Distance(decompressed[i], poly[i])
                <= DILITHIUM_Q \div (2 ^ (bits + 1))

\* C14 as amended: every recovered coefficient is within q / 2^(bits+1) + 1/2
\* of x, the difference being taken modulo q.
RoundTripRingErrorBound ==
    xpc = "decompressed" =>
        \A i \in 1..PolyLen :
            RingDistance(decompressed[i], poly[i])
                <= (DILITHIUM_Q + 2 ^ bits) \div (2 ^ (bits + 1))

\* q - 1 at 4 bits is quantized to 16 % 16 = 0 and recovered as 0
RoundTripWrapWitness ==
    /\ xpc = "decompressed"
    /\ bits = 4
    /\ poly[1] = DILITHIUM_Q - 1
    /\ decompressed[1] = 0

RECURSIVE ResponseSum(_, _, _)
ResponseSum(sigs, n, i) ==
    IF n = 0 THEN 0 ELSE ResponseSum(sigs, n - 1, i) + sigs[n].z[i]

KeyGenerationDeterministic ==
    kpc \in {"second", "done"} =>
        /\ kFirst.value.publicKey = kSecond.value.publicKey
        /\ kFirst.value.privateKey = kSecond.value.privateKey

\* C18: a key generation for a variant or threat level that has no
\* parameter set fails with InvalidParameters, and returns no key pair built
\* from another parameter set.
UnknownParameterSetFails ==
    /\ (kpc # "idle" /\ kVariant \notin DilithiumVariants)
            => (kFirst.kind = "thrown" /\ kFirst.error = "InvalidParameters")
    /\ (kpc = "done" /\ kThreatLevel \notin ThreatLevels)
            => (kProgressive.kind = "thrown"
                    /\ kProgressive.error = "InvalidParameters")

\* r + z, coefficient by coefficient
HintSum == vectorAdd(hintR, hintZ, hintParams.q)

CallFinished(i) == calls[i].pc \in {"Done", "Failed"}

\* what call i returns when it runs alone
ResultAlone(i) == dilithiumSign(calls[i].message, calls[i].privateKey)

HintFromFullPair ==
    pc = "CheckWeight" =>
        LET cs2 == polynomialVectorMul(c, privateKey.s2, params.q)
            ct0 == polynomialVectorMul(c, privateKey.t0, params.q)
            full == vectorAdd(vectorSub(w, cs2, params.q), ct0, params.q)
        IN h = makeHint(vectorNeg(ct0, params.q), full, params.gamma2,
                        params.q)

\* the order of the steps of an attempt, as pairs of positions
AttemptOrder ==
    {<<"Start", "Loop">>, <<"Loop", "Commit">>, <<"Commit", "Challenge">>,
     <<"Challenge", "Respond">>, <<"Respond", "CheckNorm">>,
     <<"CheckNorm", "Loop">>, <<"CheckNorm", "Hint">>,
     <<"Hint", "CheckWeight">>, <<"CheckWeight", "Loop">>,
     <<"CheckWeight", "Done">>, <<"Loop", "Failed">>}

NormPassed == vectorInfinityNorm(z, params.q) < params.gamma1 - params.beta

WeightPassed == vectorWeight(h) <= params.omega

\* C22: each sign attempt runs Sample, Commit, Challenge, Respond, Check in
\* that order; the hint weight is checked only in an attempt whose z passed
\* the norm check; each rejection increments the attempt counter by exactly
\* one and restarts at Sample; a signature is returned only from an attempt
\* in which both checks passed.
AttemptStepsInOrder ==
    [][/\ pc' # pc => <<pc, pc'>> \in AttemptOrder
       /\ pc' \in {"Hint", "CheckWeight"} => NormPassed'
       /\ (pc \in {"CheckNorm", "CheckWeight"} /\ pc' = "Loop")
            => attempt' = attempt + 1
       /\ attempt' # attempt
            => /\ attempt' = attempt + 1
               /\ pc \in {"CheckNorm", "CheckWeight"} /\ pc' = "Loop"
               /\ (pc = "CheckNorm" => ~NormPassed)
               /\ (pc = "CheckWeight" => ~WeightPassed)
       /\ (pc' = "Done" /\ pc # "Done")
            => /\ pc = "CheckWeight" /\ NormPassed /\ WeightPassed
               /\ outcome' = [kind |-> "returned",
                              value |-> [c_tilde |-> c_tilde, z |-> z,
                                         h |-> h]]
       /\ outcome' # outcome => pc' \in {"Done", "Failed"}]_vars

\* a signature returned from the second attempt or a later one
AttemptStepsWitness ==
    /\ pc = "Done" /\ attempt > 0
    /\ outcome.kind = "returned"
    /\ NormPassed /\ WeightPassed

\* C23: the constant-time modular reduction returns a mod q for every a in
\* [0, 2q): the result lies in [0, q) and is congruent to a modulo q.
ReduceReturnsResidue ==
    reduceResult # NoResult =>
        /\ reduceResult \in 0..(DILITHIUM_Q - 1)
        /\ reduceResult % DILITHIUM_Q = reduceInput % DILITHIUM_Q

\* C24: every coefficient produced by decompress is a valid polynomial
\* coefficient in [0, q), for every packed input and every bits-per-coefficient
\* value from 1 to 24.
DecompressedInRange ==
    xpc = "decompressed" =>
        \A i \in 1..Len(decompressed) :
            decompressed[i] \in 0..(DILITHIUM_Q - 1)

\* C25: the bounded-noise sampler returns a coefficient in [-eta, eta] on
\* every path: for an accepted candidate, and for the fallback taken after
\* its 16 candidate draws were all rejected, after which it stops.
SampleWithinEta ==
    /\ [](/\ samplePc \in {"accepted", "fallback"}
            => sampleResult \in (-sampleEta)..sampleEta
          /\ samplePc = "accepted" => sampleAttempts < 16
          /\ samplePc = "fallback" => sampleAttempts = 16 /\ sampleResult = 0
          /\ samplePc = "loop" => sampleAttempts \in 0..16)
    /\ [][(samplePc \in {"accepted", "fallback"}) => sampleVars' = sampleVars]_vars

\* the fallback was taken after a sixteenth rejected candidate
SampleFallbackWitness ==
    /\ samplePc = "fallback" /\ sampleAttempts = 16
    /\ sampleCandidate >= 2 * sampleEta
    /\ sampleResult = 0

\* C26: the message that verifyTransaction passes to verifyHybridSignature
\* is identical to the message that signTransaction passed to
\* signHybridMessage for the same signed transaction.
VerifiedMessageIsSigned ==
    verifiedMessage # NoMessage => verifiedMessage = signedMessage

\* C27: once the wallet has been reset or replaced by a newly generated one,
\* no pending callback reinstalls the earlier wallet: the wallet in state is
\* always null or the most recently generated wallet, and a wallet other
\* than the one in state is installed only by a generation.
NoEarlierWalletReinstalled ==
    /\ [](wallet.id \in {0, generated})
    /\ [][(wallet' # NoWallet /\ wallet'.id # wallet.id)
            => (generated' = generated + 1 /\ wallet'.id = generated')]_vars

\* C28: every connect, generate-wallet, sign-transaction and broadcast
\* operation eventually clears its busy flag, whether it succeeds or fails,
\* provided its requests eventually resolve or reject.
BusyFlagsCleared ==
    /\ isLoading ~> ~isLoading
    /\ isBroadcasting ~> ~isBroadcasting

\* a call failed and its busy flag is clear
BusyFlagsWitness ==
    /\ loading.stage = "failed" /\ ~isLoading
    /\ broadcasting.stage = "failed" /\ ~isBroadcasting

\* C29: with simulated broadcast, after a successful broadcast the wallet
\* balance has decreased by exactly the value of the transaction that was
\* signed and broadcast, also when the form was edited between signing and
\* broadcasting, and the balance never becomes negative.
BalanceDebitedBySignedValue ==
    /\ [](parseFloat(wallet.balance) >= 0)
    /\ [][(broadcasting.stage = "pending" /\ broadcasting'.stage = "done")
            => parseFloat(wallet'.balance)
                 = parseFloat(wallet.balance)
                     - parseFloat(broadcasting.signedTx.value)]_vars

ProgressLeq(a, b) == a.num * b.den <= b.num * a.den

\* C30: during each benchmark run the values passed to onProgress never
\* decrease, stay within 0..100, and the last value reported before the
\* function returns is 100.
ProgressMonotoneTo100 ==
    /\ \A j \in 1..Len(reported) :
        /\ ProgressLeq(Progress(0, 1), reported[j])
        /\ ProgressLeq(reported[j], Progress100)
    /\ \A j \in 1..(Len(reported) - 1) : ProgressLeq(reported[j], reported[j + 1])
    /\ benchRun.phase = "returned"
        => /\ reported # <<>>
           /\ ProgressLeq(Progress100, reported[Len(reported)])

\* the enhanced benchmark has returned after its twenty reports
ProgressWitness ==
    /\ benchRun.fn = "runEnhancedPerformanceBenchmark"
    /\ benchRun.phase = "returned"
    /\ Len(reported) = 20

====
